---- MODULE Spec2Model ----
(***************************************************************************)
(* A model of the core of libmata:                                         *)
(*   - Mata::Nfa::intersection, the product construction over two NFAs     *)
(*     (nfa-intersection.cc), as a state machine over the worklist loop;   *)
(*   - Mata::Afa, the alternating automaton with its forward and inverse   *)
(*     transition stores, the predicate transformers post / pre and the    *)
(*     four antichain emptiness tests (afa.cc).                            *)
(* States and symbols are naturals.  An ordered vector (OrdVector) of      *)
(* states is a set; a vector is a sequence.                                *)
(***************************************************************************)
EXTENDS Integers, Sequences, FiniteSets, TLC

VARIABLES
    pc,                \* position in the operation being modelled
    lhs, rhs,          \* the two NFAs given to intersection
    preserve_epsilon,  \* the flag given to intersection
    product,           \* the product NFA under construction
    product_map,       \* (lhs state, rhs state) -> product state
    pairs_to_process,  \* the pending set of pairs
    pair_to_process,   \* the pair taken last from the pending set
    prod_map,          \* the caller's copy of the map, written on return
    afa,               \* the AFA: transRelation, inverseTransRelation, initialstates, finalstates
    ncalls,            \* number of transitions added to the AFA so far
    verdicts,          \* results of the emptiness tests run on the AFA as it stands
    run,               \* the locals of the emptiness test that is running step by step
    reply,             \* the last request made to the AFA and its outcome
    ndebug,            \* TRUE iff the build defines NDEBUG (assert is compiled out)
    state_map          \* the caller's name-to-state map given to construct

vars == << pc, lhs, rhs, preserve_epsilon, product, product_map,
           pairs_to_process, pair_to_process, prod_map, afa, ncalls, verdicts,
           run, reply, ndebug, state_map >>

ioVars == << run, reply, ndebug, state_map >>

afaVars == << afa, ncalls, verdicts, ioVars >>

\* No emptiness test is running and no request was made.
NoRun == [ test |-> "none", status |-> "idle" ]

NoReply == [ op |-> "none" ]

IoIdle == run = NoRun /\ reply = NoReply /\ ndebug = FALSE /\ state_map = << >>

nfaVars == << lhs, rhs, preserve_epsilon, product, product_map,
              pairs_to_process, pair_to_process, prod_map >>

(***************************************************************************)
(* Bounds of the model.                                                    *)
(***************************************************************************)
\* Number of transitions (state, symbol, state) of lhs and rhs together.
MaxNfaTrans == 3

\* Length of the longest word the language oracle runs on.
MaxWordLen == 3

\* Number of calls that give a transition to add_trans and add_inverse_trans.
MaxAfaTrans == 2

\* Number of transitions add_trans may store before it is called no more.
MaxStored == 2

\* States of an input NFA.
NfaStates == {0, 1}

\* Symbols of the AFA.
AfaSymbols == {0, 1}

\* States of the AFA whose forward store alone is filled.
PostStates == {0, 1}

\* States of the AFA whose transitions go to both stores.
BothStates == {0, 1, 2}

\* Symbols of the AFA whose transitions go to both stores.
BothSymbols == {0}

\* Symbols other than epsilon.
NfaSymbols == {0, 1}

\* Mata::Nfa::EPSILON: greater than every other symbol.
EPSILON == 1 + Cardinality(NfaSymbols)

(***************************************************************************)
(* Helpers over sets and sequences.                                        *)
(***************************************************************************)
Min(S) == CHOOSE x \in S : \A y \in S : x <= y

\* An ordered set of naturals as the sequence its iteration yields.
RECURSIVE OrdSeq(_)
OrdSeq(S) == IF S = {} THEN << >> ELSE << Min(S) >> \o OrdSeq(S \ {Min(S)})

SeqRange(s) == { s[i] : i \in DOMAIN s }

\* Subsets of S with at most k elements.
RECURSIVE SubsetsUpTo(_, _)
SubsetsUpTo(S, k) ==
    IF k = 0 \/ S = {} THEN { {} }
    ELSE LET x == CHOOSE y \in S : TRUE
             rest == S \ {x}
         IN  SubsetsUpTo(rest, k) \cup { T \cup {x} : T \in SubsetsUpTo(rest, k - 1) }

(***************************************************************************)
(* NFA: the parts of mata/nfa.hh the product construction uses.            *)
(***************************************************************************)
\* Nfa{}: no state, no initial or final state.
EmptyNfa == [ transition_relation |-> << >>, initial_states |-> << >>, final_states |-> << >> ]

\* Nfa::has_final(state)
has_final(aut, state) == state \in SeqRange(aut.final_states)

\* Nfa::add_state(): appends an empty move list; the new state is the old size.
add_state(aut) == [ aut EXCEPT !.transition_relation = Append(@, << >>) ]

\* Nfa::add_final(state)
add_final(aut, state) == [ aut EXCEPT !.final_states = Append(@, state) ]

\* Moves::find(move): the position of the entry with the move's symbol, 0 for end().
find(moves, move) ==
    IF \E i \in DOMAIN moves : moves[i].symbol = move.symbol
    THEN CHOOSE i \in DOMAIN moves : moves[i].symbol = move.symbol
                                     /\ \A j \in 1 .. (i - 1) : moves[j].symbol # move.symbol
    ELSE 0

\* SynchronizedUniverzalIterator over two move lists: the successive results of
\* advance(), each a pair of positions whose entries carry the same symbol.
\* Both positions start at i, j; the list with the smaller symbol is advanced.
RECURSIVE sui(_, _, _, _)
sui(ml, mr, i, j) ==
    IF i > Len(ml) \/ j > Len(mr) THEN << >>
    ELSE IF ml[i].symbol = mr[j].symbol
         THEN << << i, j >> >> \o sui(ml, mr, i + 1, j + 1)
    ELSE IF ml[i].symbol < mr[j].symbol
         THEN sui(ml, mr, i + 1, j)
         ELSE sui(ml, mr, i, j + 1)

(***************************************************************************)
(* nfa-intersection.cc.  The product, the product map and the pending set  *)
(* travel together as a record c = [product, product_map, pairs_to_process]*)
(***************************************************************************)
\* union_to_left(receivingSet, addedSet)
union_to_left(receivingSet, addedSet) == receivingSet \cup addedSet

\* add_product_transition without the lookup of the symbol: the move is always appended.
add_product_transition_push(c, pair, intersection_transition) ==
    IF intersection_transition.states_to = {} THEN c
    ELSE LET src == c.product_map[pair]
         IN  [ c EXCEPT !.product.transition_relation[src + 1] = Append(@, intersection_transition) ]

\* add_product_transition(product, product_map, pair_to_process, intersection_transition)
add_product_transition(c, pair, intersection_transition) ==
    IF intersection_transition.states_to = {} THEN c
    ELSE LET src == c.product_map[pair]
             intersect_state_transitions == c.product.transition_relation[src + 1]
             symbol_transitions_iter == find(intersect_state_transitions, intersection_transition)
             updated ==
                 IF symbol_transitions_iter = 0
                 THEN Append(intersect_state_transitions, intersection_transition)
                 ELSE [ intersect_state_transitions EXCEPT
                          ![symbol_transitions_iter].states_to =
                              union_to_left(@, intersection_transition.states_to) ]
         IN  [ c EXCEPT !.product.transition_relation[src + 1] = updated ]

\* create_product_state_and_trans that puts the target pair into the pending
\* set whether the product map holds it or not.
create_product_state_and_trans_requeue(c, l, r, lhs_state_to, rhs_state_to, intersect_transitions) ==
    LET intersect_state_pair_to == << lhs_state_to, rhs_state_to >>
    IN  IF intersect_state_pair_to \notin DOMAIN c.product_map
        THEN LET intersect_state_to == Len(c.product.transition_relation)
                 added == add_state(c.product)
                 withFinal == IF has_final(l, lhs_state_to) /\ has_final(r, rhs_state_to)
                              THEN add_final(added, intersect_state_to)
                              ELSE added
             IN  [ c |-> [ product |-> withFinal,
                           product_map |-> (intersect_state_pair_to :> intersect_state_to) @@ c.product_map,
                           pairs_to_process |-> c.pairs_to_process \cup { intersect_state_pair_to } ],
                   mv |-> [ intersect_transitions EXCEPT !.states_to = @ \cup { intersect_state_to } ] ]
        ELSE [ c |-> [ c EXCEPT !.pairs_to_process = @ \cup { intersect_state_pair_to } ],
               mv |-> [ intersect_transitions EXCEPT
                          !.states_to = @ \cup { c.product_map[intersect_state_pair_to] } ] ]

\* create_product_state_and_trans marking the new state final when either component is final.
create_product_state_and_trans_either(c, l, r, lhs_state_to, rhs_state_to, intersect_transitions) ==
    LET intersect_state_pair_to == << lhs_state_to, rhs_state_to >>
    IN  IF intersect_state_pair_to \notin DOMAIN c.product_map
        THEN LET intersect_state_to == Len(c.product.transition_relation)
                 added == add_state(c.product)
                 withFinal == IF has_final(l, lhs_state_to) \/ has_final(r, rhs_state_to)
                              THEN add_final(added, intersect_state_to)
                              ELSE added
             IN  [ c |-> [ product |-> withFinal,
                           product_map |-> (intersect_state_pair_to :> intersect_state_to) @@ c.product_map,
                           pairs_to_process |-> c.pairs_to_process \cup { intersect_state_pair_to } ],
                   mv |-> [ intersect_transitions EXCEPT !.states_to = @ \cup { intersect_state_to } ] ]
        ELSE [ c |-> c,
               mv |-> [ intersect_transitions EXCEPT
                          !.states_to = @ \cup { c.product_map[intersect_state_pair_to] } ] ]

\* create_product_state_and_trans(...): the result is the record c and the move, both updated.
create_product_state_and_trans(c, l, r, lhs_state_to, rhs_state_to, intersect_transitions) ==
    LET intersect_state_pair_to == << lhs_state_to, rhs_state_to >>
    IN  IF intersect_state_pair_to \notin DOMAIN c.product_map
        THEN LET intersect_state_to == Len(c.product.transition_relation)
                 added == add_state(c.product)
                 withFinal == IF has_final(l, lhs_state_to) /\ has_final(r, rhs_state_to)
                              THEN add_final(added, intersect_state_to)
                              ELSE added
             IN  [ c |-> [ product |-> withFinal,
                           product_map |-> (intersect_state_pair_to :> intersect_state_to) @@ c.product_map,
                           pairs_to_process |-> c.pairs_to_process \cup { intersect_state_pair_to } ],
                   mv |-> [ intersect_transitions EXCEPT !.states_to = @ \cup { intersect_state_to } ] ]
        ELSE [ c |-> c,
               mv |-> [ intersect_transitions EXCEPT
                          !.states_to = @ \cup { c.product_map[intersect_state_pair_to] } ] ]

\* The loops over target states: create_product_state_and_trans for each pair of
\* the sequence `targets`, in order.
RECURSIVE create_all(_, _, _, _, _)
RECURSIVE target_pairs(_, _)
RECURSIVE classic_product(_, _, _, _, _)
create_all(c, l, r, targets, mv) ==
    IF targets = << >> THEN [ c |-> c, mv |-> mv ]
    ELSE LET one == create_product_state_and_trans(c, l, r, Head(targets)[1], Head(targets)[2], mv)
         IN  create_all(one.c, l, r, Tail(targets), one.mv)

\* The pairs of the first of `lefts` only.
target_pairs_first(lefts, rights) ==
    IF lefts = << >> THEN << >>
    ELSE [ k \in 1 .. Len(rights) |-> << Head(lefts), rights[k] >> ]

\* The pairs (this_state_to, other_state_to) in the order of the nested loops.
target_pairs(lefts, rights) ==
    IF lefts = << >> THEN << >>
    ELSE [ k \in 1 .. Len(rights) |-> << Head(lefts), rights[k] >> ] \o target_pairs(Tail(lefts), rights)

\* classic_move with the inner loop cut to the first target of the rhs move.
classic_move_first(c, l, r, pair, ml, mr) ==
    LET done == create_all(c, l, r,
                           target_pairs(OrdSeq(ml.states_to), << Min(mr.states_to) >>),
                           [ symbol |-> ml.symbol, states_to |-> {} ])
    IN  add_product_transition(done.c, pair, done.mv)

\* One result of sui.advance(): lines 123-141.
classic_move(c, l, r, pair, ml, mr) ==
    LET done == create_all(c, l, r,
                           target_pairs(OrdSeq(ml.states_to), OrdSeq(mr.states_to)),
                           [ symbol |-> ml.symbol, states_to |-> {} ])
    IN  add_product_transition(done.c, pair, done.mv)

\* while (sui.advance()) { ... }: lines 118-142.
classic_product(c, l, r, pair, groups) ==
    IF groups = << >> THEN c
    ELSE LET ml == l.transition_relation[pair[1] + 1][Head(groups)[1]]
             mr == r.transition_relation[pair[2] + 1][Head(groups)[2]]
         IN  classic_product(classic_move(c, l, r, pair, ml, mr), l, r, pair, Tail(groups))

\* lhs_epsilon reading the first move of the list instead of the last.
lhs_epsilon_front(c, l, r, pair) ==
    LET lhs_state_symbol_transitions == l.transition_relation[pair[1] + 1]
    IN  IF lhs_state_symbol_transitions = << >> THEN c
        ELSE LET lhs_state_first_transitions == lhs_state_symbol_transitions[1]
             IN  IF lhs_state_first_transitions.symbol # EPSILON THEN c
                 ELSE LET tg == OrdSeq(lhs_state_first_transitions.states_to)
                          done == create_all(c, l, r,
                                     [ k \in 1 .. Len(tg) |-> << tg[k], pair[2] >> ],
                                     [ symbol |-> EPSILON, states_to |-> {} ])
                      IN  add_product_transition(done.c, pair, done.mv)

\* Lines 148-163: the epsilon move of lhs at the processed pair.
lhs_epsilon(c, l, r, pair) ==
    LET lhs_state_symbol_transitions == l.transition_relation[pair[1] + 1]
    IN  IF lhs_state_symbol_transitions = << >> THEN c
        ELSE LET lhs_state_last_transitions ==
                     lhs_state_symbol_transitions[Len(lhs_state_symbol_transitions)]
             IN  IF lhs_state_last_transitions.symbol # EPSILON THEN c
                 ELSE LET tg == OrdSeq(lhs_state_last_transitions.states_to)
                          done == create_all(c, l, r,
                                     [ k \in 1 .. Len(tg) |-> << tg[k], pair[2] >> ],
                                     [ symbol |-> EPSILON, states_to |-> {} ])
                      IN  add_product_transition(done.c, pair, done.mv)

\* Lines 165-181: the epsilon move of rhs at the processed pair.
rhs_epsilon(c, l, r, pair) ==
    LET rhs_state_symbol_transitions == r.transition_relation[pair[2] + 1]
    IN  IF rhs_state_symbol_transitions = << >> THEN c
        ELSE LET rhs_state_last_transitions ==
                     rhs_state_symbol_transitions[Len(rhs_state_symbol_transitions)]
             IN  IF rhs_state_last_transitions.symbol # EPSILON THEN c
                 ELSE LET tg == OrdSeq(rhs_state_last_transitions.states_to)
                          done == create_all(c, l, r,
                                     [ k \in 1 .. Len(tg) |-> << pair[1], tg[k] >> ],
                                     [ symbol |-> EPSILON, states_to |-> {} ])
                      IN  add_product_transition(done.c, pair, done.mv)

\* The body of the loop with the pending set cleared where the pair taken is
\* erased from it.
process_pair_clear(c, l, r, pe, pair) ==
    LET taken == [ c EXCEPT !.pairs_to_process = {} ]
        classic == classic_product(taken, l, r, pair,
                       sui(l.transition_relation[pair[1] + 1],
                           r.transition_relation[pair[2] + 1], 1, 1))
    IN  IF pe THEN rhs_epsilon(lhs_epsilon(classic, l, r, pair), l, r, pair)
        ELSE classic

\* The body of the worklist loop for the pair taken from the pending set: lines 115-182.
process_pair(c, l, r, pe, pair) ==
    LET taken == [ c EXCEPT !.pairs_to_process = @ \ { pair } ]
        classic == classic_product(taken, l, r, pair,
                       sui(l.transition_relation[pair[1] + 1],
                           r.transition_relation[pair[2] + 1], 1, 1))
    IN  IF pe THEN rhs_epsilon(lhs_epsilon(classic, l, r, pair), l, r, pair)
        ELSE classic

\* Initial pairs that all get the product state 0.
init_pairs_same_state(c, l, r, initials) ==
    [ product |-> [ add_state(c.product) EXCEPT !.initial_states = << 0 >> ],
      product_map |-> [ p \in SeqRange(initials) |-> 0 ],
      pairs_to_process |-> SeqRange(initials) ]

\* Lines 98-112: one product state per pair of initial states.
RECURSIVE init_pairs(_, _, _, _)
init_pairs(c, l, r, initials) ==
    IF initials = << >> THEN c
    ELSE LET p == Head(initials)
             new_intersection_state == Len(c.product.transition_relation)
             added == add_state(c.product)
             withInit == [ added EXCEPT !.initial_states = Append(@, new_intersection_state) ]
             withFinal == IF has_final(l, p[1]) /\ has_final(r, p[2])
                          THEN [ withInit EXCEPT !.final_states = Append(@, new_intersection_state) ]
                          ELSE withInit
         IN  init_pairs([ product |-> withFinal,
                          product_map |-> (p :> new_intersection_state) @@ c.product_map,
                          pairs_to_process |-> c.pairs_to_process \cup { p } ],
                        l, r, Tail(initials))

(***************************************************************************)
(* The NFAs given to intersection.                                         *)
(***************************************************************************)
\* The sorted move list of state s in the transition set T.
MovesOf(T, s) ==
    LET syms == OrdSeq({ t[2] : t \in { u \in T : u[1] = s } })
    IN  [ k \in 1 .. Len(syms) |->
            [ symbol |-> syms[k],
              states_to |-> { t[3] : t \in { u \in T : u[1] = s /\ u[2] = syms[k] } } ] ]

NfaOf(T, I, F) ==
    [ transition_relation |-> [ k \in 1 .. Cardinality(NfaStates) |-> MovesOf(T, k - 1) ],
      initial_states |-> OrdSeq(I),
      final_states |-> OrdSeq(F) ]

\* A transition of lhs is tagged 0, one of rhs is tagged 1.
TaggedTrans(symbols) == { 0, 1 } \X NfaStates \X symbols \X NfaStates

Untag(TT, side) == { << t[2], t[3], t[4] >> : t \in { u \in TT : u[1] = side } }

\* lhs and rhs over `symbols`, with at most MaxNfaTrans transitions together
\* and final states drawn from `finals`.
NfaInputsFinals(symbols, flags, finals) ==
    /\ pc = "start"
    /\ \E TT \in SubsetsUpTo(TaggedTrans(symbols), MaxNfaTrans) :
       \E Il \in { {0}, {0, 1} }, Ir \in { {0} } :
       \E Fl \in finals, Fr \in finals :
          /\ lhs = NfaOf(Untag(TT, 0), Il, Fl)
          /\ rhs = NfaOf(Untag(TT, 1), Ir, Fr)
    /\ preserve_epsilon \in flags
    /\ product = EmptyNfa
    /\ product_map = << >>
    /\ pairs_to_process = {}
    /\ pair_to_process = << 0, 0 >>
    /\ prod_map = << >>
    /\ afa = << >> /\ ncalls = 0 /\ verdicts = << >>
    /\ IoIdle

NfaInputs(symbols, flags) == NfaInputsFinals(symbols, flags, SUBSET NfaStates)

\* NFAs with epsilon moves, with and without preserve_epsilon.
NfaInit == NfaInputs({ 0, EPSILON }, BOOLEAN)

\* Epsilon-free NFAs over two symbols, preserve_epsilon = false.
NfaLangInit == NfaInputs(NfaSymbols, { FALSE })

(***************************************************************************)
(* intersection(lhs, rhs, preserve_epsilon, prod_map) as a state machine.  *)
(***************************************************************************)
\* Lines 91-112.
Initialize ==
    /\ pc = "start"
    /\ LET c == init_pairs([ product |-> EmptyNfa, product_map |-> << >>, pairs_to_process |-> {} ],
                           lhs, rhs,
                           target_pairs(lhs.initial_states, rhs.initial_states))
       IN  /\ product' = c.product
           /\ product_map' = c.product_map
           /\ pairs_to_process' = c.pairs_to_process
    /\ pc' = "loop"
    /\ UNCHANGED << lhs, rhs, preserve_epsilon, pair_to_process, prod_map >>
    /\ UNCHANGED afaVars

\* Lines 114-183: one iteration.  *pairs_to_process.cbegin() of an unordered set
\* is any of its elements.
ProcessPair ==
    /\ pc = "loop"
    /\ \E pair \in pairs_to_process :
         LET c == process_pair([ product |-> product, product_map |-> product_map,
                                 pairs_to_process |-> pairs_to_process ],
                               lhs, rhs, preserve_epsilon, pair)
         IN  /\ pair_to_process' = pair
             /\ product' = c.product
             /\ product_map' = c.product_map
             /\ pairs_to_process' = c.pairs_to_process
    /\ UNCHANGED << pc, lhs, rhs, preserve_epsilon, prod_map >>
    /\ UNCHANGED afaVars

\* Lines 185-186.
Return ==
    /\ pc = "loop"
    /\ pairs_to_process = {}
    /\ prod_map' = product_map
    /\ pc' = "done"
    /\ UNCHANGED << lhs, rhs, preserve_epsilon, product, product_map,
                    pairs_to_process, pair_to_process >>
    /\ UNCHANGED afaVars

NfaNext == Initialize \/ ProcessPair \/ Return

SpecNfa == NfaInit /\ [][NfaNext]_vars

SpecNfaLang == NfaLangInit /\ [][NfaNext]_vars

\* The least pair of a set of pairs, in the order of pairs.
MinPair(pairs) ==
    CHOOSE p \in pairs : \A q \in pairs : p[1] < q[1] \/ (p[1] = q[1] /\ p[2] <= q[2])

\* The loop of lines 114-183 when cbegin() is the least pending pair each time.
RECURSIVE least_first_loop(_, _, _, _)
least_first_loop(c, l, r, pe) ==
    IF c.pairs_to_process = {} THEN c
    ELSE least_first_loop(process_pair(c, l, r, pe, MinPair(c.pairs_to_process)), l, r, pe)

\* intersection(l, r, pe) run in that order: the product and the product map.
least_first_intersection(l, r, pe) ==
    least_first_loop(init_pairs([ product |-> EmptyNfa, product_map |-> << >>,
                                  pairs_to_process |-> {} ],
                                l, r, target_pairs(l.initial_states, r.initial_states)),
                     l, r, pe)

\* The loop of lines 114-183 runs on while the pending set is not empty, and
\* line 185 is reached when it is empty.
ProcessPairEnabled == pc = "loop" /\ pairs_to_process # {}

ReturnEnabled == pc = "loop" /\ pairs_to_process = {}

\* The same NFAs with no final state or with every state final.
NfaLoopInit == NfaInputsFinals({ 0, EPSILON }, BOOLEAN, { {}, NfaStates })

SpecNfaLive ==
    /\ NfaLoopInit /\ [][NfaNext]_vars
    /\ ([]<>(~(pc = "start")) \/ []<><<Initialize>>_vars)
    /\ ([]<>(~ProcessPairEnabled) \/ []<><<ProcessPair>>_vars)
    /\ ([]<>(~ReturnEnabled) \/ []<><<Return>>_vars)

(***************************************************************************)
(* Languages of NFAs without epsilon moves, on words up to MaxWordLen.     *)
(***************************************************************************)
\* The targets of state s under symbol a.
NfaTargets(aut, s, a) ==
    UNION { aut.transition_relation[s + 1][i].states_to :
              i \in { j \in DOMAIN aut.transition_relation[s + 1] :
                        aut.transition_relation[s + 1][j].symbol = a } }

RECURSIVE NfaRun(_, _, _)
NfaRun(aut, S, w) ==
    IF w = << >> THEN S
    ELSE NfaRun(aut, UNION { NfaTargets(aut, s, Head(w)) : s \in S }, Tail(w))

NfaAccepts(aut, w) ==
    \E s \in NfaRun(aut, SeqRange(aut.initial_states), w) : has_final(aut, s)

Words == UNION { [ 1 .. n -> NfaSymbols ] : n \in 0 .. MaxWordLen }

InitialPairs == SeqRange(lhs.initial_states) \X SeqRange(rhs.initial_states)

ProductIsSorted ==
    \A r \in DOMAIN product.transition_relation :
       \A i, j \in DOMAIN product.transition_relation[r] :
          i < j => product.transition_relation[r][i].symbol
                     < product.transition_relation[r][j].symbol

(***************************************************************************)
(* Properties of intersection.                                             *)
(***************************************************************************)
\* C1: for epsilon-free lhs and rhs and preserve_epsilon = false, the returned
\* product accepts a word (of length at most MaxWordLen) iff lhs and rhs both do.
C1_ProductLanguage ==
    (pc = "done" /\ ~preserve_epsilon) =>
        \A w \in Words :
            NfaAccepts(product, w) <=> (NfaAccepts(lhs, w) /\ NfaAccepts(rhs, w))

\* A returned product that accepts a word of length two or more which lhs and
\* rhs both accept, while some other word is accepted by one side only.
C1_Witness ==
    /\ pc = "done" /\ ~preserve_epsilon
    /\ \E w \in Words : Len(w) >= 2 /\ NfaAccepts(product, w)
    /\ \E w \in Words : NfaAccepts(lhs, w) /\ ~NfaAccepts(rhs, w)

\* C2: at every step, a mapped pair's product state is final iff both of its
\* components are final.
C2_ProductFinality ==
    \A pair \in DOMAIN product_map :
        has_final(product, product_map[pair])
            <=> (has_final(lhs, pair[1]) /\ has_final(rhs, pair[2]))

\* The returned epsilon-preserving product holds a final state whose pair was
\* discovered in the loop, and a discovered pair with exactly one final component.
C2_Witness ==
    /\ pc = "done" /\ preserve_epsilon
    /\ \E pair \in DOMAIN product_map \ InitialPairs : has_final(product, product_map[pair])
    /\ \E pair \in DOMAIN product_map \ InitialPairs :
          has_final(lhs, pair[1]) /\ ~has_final(rhs, pair[2])
    /\ \E pair \in InitialPairs : has_final(product, product_map[pair])

\* C3: with preserve_epsilon, the returned product carries, for every mapped pair
\* (p,q), every epsilon transition p -> p' of lhs as (p,q) -> (p',q) and every
\* epsilon transition q -> q' of rhs as (p,q) -> (p,q').
C3_EpsilonPreserved ==
    (pc = "done" /\ preserve_epsilon) =>
        \A pair \in DOMAIN prod_map :
            /\ \A p2 \in NfaTargets(lhs, pair[1], EPSILON) :
                  /\ << p2, pair[2] >> \in DOMAIN prod_map
                  /\ prod_map[<< p2, pair[2] >>] \in NfaTargets(product, prod_map[pair], EPSILON)
            /\ \A q2 \in NfaTargets(rhs, pair[2], EPSILON) :
                  /\ << pair[1], q2 >> \in DOMAIN prod_map
                  /\ prod_map[<< pair[1], q2 >>] \in NfaTargets(product, prod_map[pair], EPSILON)

\* A returned product of a pair at which lhs has an epsilon move after a
\* non-epsilon move, and rhs has an epsilon move too.
C3_Witness ==
    /\ pc = "done" /\ preserve_epsilon
    /\ \E pair \in DOMAIN prod_map :
          /\ Len(lhs.transition_relation[pair[1] + 1]) = 2
          /\ NfaTargets(lhs, pair[1], EPSILON) # {}
          /\ NfaTargets(rhs, pair[2], EPSILON) # {}

\* C4: after every processed pair, every move list of the product is strictly
\* increasing by symbol.
C4_ProductSorted == ProductIsSorted

\* A processed pair at which both sides have an epsilon move, with
\* preserve_epsilon: its product state has one move, on EPSILON, that merged
\* the targets of the synchronous step and of both epsilon steps.
C4_Witness ==
    /\ pc = "loop" /\ preserve_epsilon
    /\ pair_to_process \in DOMAIN product_map
    /\ pair_to_process \notin pairs_to_process
    /\ NfaTargets(lhs, pair_to_process[1], EPSILON) # {}
    /\ NfaTargets(rhs, pair_to_process[2], EPSILON) # {}
    /\ LET moves == product.transition_relation[product_map[pair_to_process] + 1]
       IN  /\ Len(moves) = 1
           /\ moves[1].symbol = EPSILON
           /\ Cardinality(moves[1].states_to) = 3

\* The product states allocated so far.
ProductStates == 0 .. (Len(product.transition_relation) - 1)

\* C19: at every step the product map is injective, its image is the set of
\* the product states allocated so far, and every pending pair and the pair
\* taken last from the pending set are keys of the map.
C19_ProductMapBijective ==
    (pc # "start") =>
        /\ \A p1, p2 \in DOMAIN product_map : product_map[p1] = product_map[p2] => p1 = p2
        /\ { product_map[p] : p \in DOMAIN product_map } = ProductStates
        /\ pairs_to_process \subseteq DOMAIN product_map
        /\ pair_to_process \in DOMAIN product_map

\* A returned product with two initial pairs and a pair discovered in the loop.
C19_Witness ==
    /\ pc = "done"
    /\ Cardinality(InitialPairs) = 2
    /\ Cardinality(DOMAIN product_map \ InitialPairs) >= 2
    /\ pair_to_process \notin InitialPairs

\* The symbols on which state s of aut has a move.
SymbolsOf(aut, s) ==
    { aut.transition_relation[s + 1][i].symbol : i \in DOMAIN aut.transition_relation[s + 1] }

\* C20: in the product returned with preserve_epsilon = false, the s-targets
\* of map(p, q) are the images of the pairs of s-targets of p and q, and
\* map(p, q) has no s-move when p or q has none; without a shared symbol the
\* product has its initial states only and no transition.
C20_ProductMoves ==
    (pc = "done" /\ ~preserve_epsilon) =>
        /\ \A pair \in DOMAIN product_map : \A s \in NfaSymbols :
              LET T_l == NfaTargets(lhs, pair[1], s)
                  T_r == NfaTargets(rhs, pair[2], s)
              IN  /\ T_l \X T_r \subseteq DOMAIN product_map
                  /\ NfaTargets(product, product_map[pair], s)
                        = { product_map[t] : t \in T_l \X T_r }
                  /\ (s \in SymbolsOf(product, product_map[pair]))
                        <=> (s \in SymbolsOf(lhs, pair[1]) /\ s \in SymbolsOf(rhs, pair[2]))
        /\ (\A pair \in DOMAIN product_map :
                SymbolsOf(lhs, pair[1]) \cap SymbolsOf(rhs, pair[2]) = {})
              => /\ DOMAIN product_map = InitialPairs
                 /\ \A r \in DOMAIN product.transition_relation :
                        product.transition_relation[r] = << >>

\* A returned product in which a pair has a move to another product state on one
\* symbol and no move on the other, which only one side has.
C20_Witness ==
    /\ pc = "done" /\ ~preserve_epsilon
    /\ \E pair \in DOMAIN product_map : \E s, t \in NfaSymbols :
          /\ NfaTargets(product, product_map[pair], s) \ { product_map[pair] } # {}
          /\ t \in SymbolsOf(lhs, pair[1]) /\ t \notin SymbolsOf(rhs, pair[2])
          /\ t \notin SymbolsOf(product, product_map[pair])

\* The pairs the loop has taken from the pending set and processed.
ProcessedPairs == (DOMAIN product_map) \ pairs_to_process

\* C21: the worklist loop of intersection terminates.  A pair enters the
\* pending set only when the product map does not hold it yet, the pair an
\* iteration takes leaves the pending set and never comes back, so each
\* iteration adds exactly one pair to the processed ones, and there are at
\* most |states(lhs)| * |states(rhs)| of them; with and without
\* preserve_epsilon.
C21_WorklistTerminates ==
    /\ [][ProcessPair =>
            /\ pair_to_process' \in pairs_to_process
            /\ pair_to_process' \notin pairs_to_process'
            /\ (pairs_to_process' \ pairs_to_process) \cap (DOMAIN product_map) = {}
            /\ pairs_to_process' \ pairs_to_process = (DOMAIN product_map') \ (DOMAIN product_map)
            /\ pair_to_process' \notin ProcessedPairs
            /\ ProcessedPairs' = ProcessedPairs \cup { pair_to_process' }]_vars
    /\ [](pc # "start" =>
            Cardinality(DOMAIN product_map)
               <= Len(lhs.transition_relation) * Len(rhs.transition_relation))
    /\ (pc = "loop") ~> (pc = "done")

\* The loop has ended after processing a pair that has an epsilon self-loop
\* in lhs, with preserve_epsilon, and a pair it discovered on the way.
C21_Witness ==
    /\ pc = "done"
    /\ preserve_epsilon
    /\ Cardinality(DOMAIN product_map) >= 2
    /\ \E p \in DOMAIN product_map :
          \E i \in DOMAIN lhs.transition_relation[p[1] + 1] :
             /\ lhs.transition_relation[p[1] + 1][i].symbol = EPSILON
             /\ p[1] \in lhs.transition_relation[p[1] + 1][i].states_to

\* A product seen through its product map: the pairs discovered, the pairs
\* of the initial and of the final states, and the transitions between pairs.
PairView(prod, map) ==
    [ pairs |-> DOMAIN map,
      initial |-> { p \in DOMAIN map : map[p] \in SeqRange(prod.initial_states) },
      final |-> { p \in DOMAIN map : map[p] \in SeqRange(prod.final_states) },
      transitions |->
          UNION { UNION { { << p, prod.transition_relation[map[p] + 1][i].symbol, q >> :
                              q \in { t \in DOMAIN map :
                                        map[t] \in prod.transition_relation[map[p] + 1][i].states_to } } :
                          i \in DOMAIN prod.transition_relation[map[p] + 1] } :
                  p \in DOMAIN map } ]

\* C29: the result of intersection does not depend on the pending pair the
\* loop takes next: whatever the order, the run ends with the discovered
\* pairs, the initial pairs, the final pairs and the transitions over pairs
\* of the run that takes the least pending pair each time; the numbers of
\* the product states may differ.
C29_OrderIndependent ==
    (pc = "done") =>
        LET least == least_first_intersection(lhs, rhs, preserve_epsilon)
        IN  PairView(product, prod_map) = PairView(least.product, least.product_map)

\* A run has ended with product states numbered otherwise than in the run
\* that takes the least pending pair first.
C29_Witness ==
    /\ pc = "done"
    /\ Cardinality(DOMAIN prod_map) >= 3
    /\ prod_map # least_first_intersection(lhs, rhs, preserve_epsilon).product_map

(***************************************************************************)
(* Node, Nodes and the closed set (mata/closed_set.hh).  A Node is a set   *)
(* of states, a Nodes value a set of Node.  A closed set is a record       *)
(* [type, antichain]; its domain bounds 0 and transRelation.size()-1 are   *)
(* the same for every closed set of one automaton.                         *)
(***************************************************************************)
\* operator< of Node: the order of the sorted vectors, position by position.
NodeLess(A, B) ==
    /\ A # B
    /\ LET d == Min((A \ B) \cup (B \ A))
       IN  IF d \in A THEN \E y \in B : y > d
           ELSE ~ \E y \in A : y > d

\* A Nodes value as the sequence its iteration yields.
RECURSIVE NodesSeq(_)
NodesSeq(NS) ==
    IF NS = {} THEN << >>
    ELSE LET first == CHOOSE A \in NS : \A B \in NS \ {A} : NodeLess(A, B)
         IN  << first >> \o NodesSeq(NS \ {first})

\* ClosedSet(type, min, max): the empty closed set.
EmptyClosedSet(type) == [ type |-> type, antichain |-> {} ]

\* ClosedSet(): the default closed set.
DefaultClosedSet == [ type |-> "upward_closed_set", antichain |-> {} ]

\* ClosedSet::contains(node)
contains(cs, node) ==
    IF cs.type = "upward_closed_set"
    THEN \E A \in cs.antichain : A \subseteq node
    ELSE \E A \in cs.antichain : node \subseteq A

\* ClosedSet::insert(node)
insert(cs, node) ==
    IF cs.type = "upward_closed_set"
    THEN IF \E A \in cs.antichain : A \subseteq node THEN cs
         ELSE [ cs EXCEPT !.antichain = { A \in @ : ~(node \subseteq A) } \cup { node } ]
    ELSE IF \E A \in cs.antichain : node \subseteq A THEN cs
         ELSE [ cs EXCEPT !.antichain = { A \in @ : ~(A \subseteq node) } \cup { node } ]

\* ClosedSet::insert(nodes): insert(node) for every node, in order.
RECURSIVE insert_seq(_, _)
insert_seq(cs, nodes) ==
    IF nodes = << >> THEN cs ELSE insert_seq(insert(cs, Head(nodes)), Tail(nodes))

insert_nodes(cs, nodes) == insert_seq(cs, NodesSeq(nodes))

\* ClosedSet(type, min, max, antichain)
ClosedSet(type, nodes) == insert_nodes(EmptyClosedSet(type), nodes)

\* ClosedSet::Union(rhs)
Union(cs, other) == insert_nodes(cs, other.antichain)

\* ClosedSet::intersection(rhs)
intersection(cs, other) ==
    IF cs.type = "upward_closed_set"
    THEN ClosedSet(cs.type, { A \cup B : A \in cs.antichain, B \in other.antichain })
    ELSE ClosedSet(cs.type, { A \cap B : A \in cs.antichain, B \in other.antichain })

\* ClosedSet::operator<=(rhs): every node of the antichain is in rhs.
IsSubsetOfClosed(cs, other) == \A A \in cs.antichain : contains(other, A)

\* ClosedSet::operator==(rhs)
ClosedEqual(cs, other) == cs.antichain = other.antichain

(***************************************************************************)
(* Afa (afa.cc).  transRelation[s + 1] is the list of Trans of state s;    *)
(* inverseTransRelation[s + 1] the list of InverseTrans stored at s.       *)
(***************************************************************************)
NumStates(a) == Len(a.transRelation)

\* Afa(num_of_states) with the given initial and final states.
NewAfa(n, I, F) ==
    [ transRelation |-> [ i \in 1 .. n |-> << >> ],
      inverseTransRelation |-> [ i \in 1 .. n |-> << >> ],
      initialstates |-> I,
      finalstates |-> F ]

\* Afa::has_initial(state), Afa::has_final(state)
afa_has_initial(a, state) == state \in a.initialstates

afa_has_final(a, state) == state \in a.finalstates

\* Afa::perform_trans(src, symb): a copy of the dst of the first entry for symb.
perform_trans(a, src, symb) ==
    LET row == a.transRelation[src + 1]
        hits == { i \in DOMAIN row : row[i].symb = symb }
    IN  IF hits = {} THEN {} ELSE row[Min(hits)].dst

\* Afa::add_trans(trans).  The closed set of lines 65-67 is assigned through
\* nodesPtr, which points to the copy perform_trans returned: the automaton
\* keeps its old value.
add_trans(a, trans) ==
    LET nodes == perform_trans(a, trans.src, trans.symb)
    IN  IF nodes # {}
        THEN LET cl == insert_nodes(ClosedSet("upward_closed_set", nodes), trans.dst)
                 copy == cl.antichain
             IN  a
        ELSE [ a EXCEPT !.transRelation[trans.src + 1] = Append(@, trans) ]

\* Afa::has_trans(trans): the stored Nodes of (src, symb) are not empty and
\* each of them is one of the nodes of trans.dst.
has_trans(a, trans) ==
    LET res == perform_trans(a, trans.src, trans.symb)
    IN  res # {} /\ res \subseteq trans.dst

\* Afa::trans_size()
RECURSIVE trans_size_from(_, _)
trans_size_from(a, state) ==
    IF state > NumStates(a) THEN 0
    ELSE Len(a.transRelation[state]) + trans_size_from(a, state + 1)

trans_size(a) == trans_size_from(a, 1)

\* Afa::perform_inverse_trans(src, symb)
perform_inverse_trans(a, src, symb) ==
    LET row == a.inverseTransRelation[src + 1]
        hits == { i \in DOMAIN row : row[i].symb = symb }
    IN  IF hits = {} THEN << >> ELSE row[Min(hits)].inverseResults

\* The body of the loop without the search for a stored inverse-result with
\* the node as its sharing_list: a new inverse-result is stored each time.
add_inverse_node_no_search(a, trans, node) ==
    LET storeTo == Min(node)
        fresh == [ result_nodes |-> { trans.src }, sharing_list |-> node ]
        row == a.inverseTransRelation[storeTo + 1]
    IN  IF perform_inverse_trans(a, storeTo, trans.symb) = << >>
        THEN [ a EXCEPT !.inverseTransRelation[storeTo + 1] =
                 Append(@, [ symb |-> trans.symb, inverseResults |-> << fresh >> ]) ]
        ELSE LET k == Min({ i \in DOMAIN row : row[i].symb = trans.symb })
             IN  [ a EXCEPT !.inverseTransRelation[storeTo + 1][k].inverseResults = Append(@, fresh) ]

\* The body of the loop of Afa::add_inverse_trans for one node of trans.dst.
\* The loop of lines 111-119 iterates over copies of the inverse results:
\* inserting trans.src changes the copy only.
add_inverse_node(a, trans, node) ==
    LET storeTo == Min(node)
        inverseTransResults == perform_inverse_trans(a, storeTo, trans.symb)
        found == \E i \in DOMAIN inverseTransResults : inverseTransResults[i].sharing_list = node
        fresh == [ result_nodes |-> { trans.src }, sharing_list |-> node ]
        row == a.inverseTransRelation[storeTo + 1]
    IN  IF found THEN a
        ELSE IF perform_inverse_trans(a, storeTo, trans.symb) = << >>
        THEN [ a EXCEPT !.inverseTransRelation[storeTo + 1] =
                 Append(@, [ symb |-> trans.symb, inverseResults |-> << fresh >> ]) ]
        ELSE LET k == Min({ i \in DOMAIN row : row[i].symb = trans.symb })
             IN  [ a EXCEPT !.inverseTransRelation[storeTo + 1][k].inverseResults = Append(@, fresh) ]

RECURSIVE add_inverse_seq(_, _, _)
add_inverse_seq(a, trans, nodes) ==
    IF nodes = << >> THEN a
    ELSE add_inverse_seq(add_inverse_node(a, trans, Head(nodes)), trans, Tail(nodes))

\* Afa::add_inverse_trans(trans)
add_inverse_trans(a, trans) == add_inverse_seq(a, trans, NodesSeq(trans.dst))

(***************************************************************************)
(* post                                                                    *)
(***************************************************************************)
\* A post whose closed set holds the stored Nodes as they are.
post_state_symb_stored(a, state, symb) ==
    [ type |-> "upward_closed_set", antichain |-> perform_trans(a, state, symb) ]

\* Afa::post(State, Symbol)
post_state_symb(a, state, symb) ==
    LET result == perform_trans(a, state, symb)
    IN  IF result # {} THEN ClosedSet("upward_closed_set", result)
        ELSE EmptyClosedSet("upward_closed_set")

\* A loop that stops after the first state of the node.
post_node_rest_first(a, result, states, symb) == result

\* The loop over the states after the first with a union in the place of
\* the intersection.
RECURSIVE post_node_rest_union(_, _, _, _)
post_node_rest_union(a, result, states, symb) ==
    IF states = << >> THEN result
    ELSE post_node_rest_union(a, Union(result, post_state_symb(a, Head(states), symb)),
                              Tail(states), symb)

\* The loop of Afa::post(Node, Symbol) over the states after the first.
RECURSIVE post_node_rest(_, _, _, _)
post_node_rest(a, result, states, symb) ==
    IF states = << >> THEN result
    ELSE post_node_rest(a, intersection(result, post_state_symb(a, Head(states), symb)),
                        Tail(states), symb)

\* A post without the case of the empty node, whose post is then empty.
post_node_symb_no_empty(a, node, symb) ==
    IF node = {} THEN EmptyClosedSet("upward_closed_set")
    ELSE post_node_rest(a, insert_nodes(EmptyClosedSet("upward_closed_set"),
                                        post_state_symb(a, Min(node), symb).antichain),
                        Tail(OrdSeq(node)), symb)

\* Afa::post(Node, Symbol)
post_node_symb(a, node, symb) ==
    IF node = {} THEN insert(EmptyClosedSet("upward_closed_set"), node)
    ELSE LET states == OrdSeq(node)
             first == insert_nodes(EmptyClosedSet("upward_closed_set"),
                                   post_state_symb(a, Head(states), symb).antichain)
         IN  post_node_rest(a, first, Tail(states), symb)

RECURSIVE post_nodes_symb_seq(_, _, _, _)
post_nodes_symb_seq(a, result, nodes, symb) ==
    IF nodes = << >> THEN result
    ELSE post_nodes_symb_seq(a, insert_nodes(result, post_node_symb(a, Head(nodes), symb).antichain),
                             Tail(nodes), symb)

\* Afa::post(Nodes, Symbol)
post_nodes_symb(a, nodes, symb) ==
    post_nodes_symb_seq(a, EmptyClosedSet("upward_closed_set"), NodesSeq(nodes), symb)

\* The loop of Afa::post(Node) cut after the first transition of the list.
post_node_seq_first(a, result, node, row) ==
    IF row = << >> THEN result
    ELSE insert_nodes(result, post_node_symb(a, node, Head(row).symb).antichain)

RECURSIVE post_node_seq(_, _, _, _)
post_node_seq(a, result, node, row) ==
    IF row = << >> THEN result
    ELSE post_node_seq(a, insert_nodes(result, post_node_symb(a, node, Head(row).symb).antichain),
                       node, Tail(row))

\* Afa::post(Node): the symbols are those of the transitions of the least state.
post_node(a, node) ==
    IF node = {} THEN ClosedSet("upward_closed_set", { {} })
    ELSE post_node_seq(a, EmptyClosedSet("upward_closed_set"), node,
                       a.transRelation[Min(node) + 1])

RECURSIVE post_nodes_seq(_, _, _)
post_nodes_seq(a, result, nodes) ==
    IF nodes = << >> THEN result
    ELSE post_nodes_seq(a, insert_nodes(result, post_node(a, Head(nodes)).antichain), Tail(nodes))

\* Afa::post(Nodes)
post_nodes(a, nodes) == post_nodes_seq(a, EmptyClosedSet("upward_closed_set"), NodesSeq(nodes))

\* Afa::post(StateClosedSet)
post_closed(a, closed_set) == post_nodes(a, closed_set.antichain)

(***************************************************************************)
(* pre                                                                     *)
(***************************************************************************)
\* Afa::perform_inverse_trans(Node, Symbol)
RECURSIVE perform_inverse_trans_seq(_, _, _)
perform_inverse_trans_seq(a, states, symb) ==
    IF states = << >> THEN << >>
    ELSE perform_inverse_trans(a, Head(states), symb)
           \o perform_inverse_trans_seq(a, Tail(states), symb)

perform_inverse_trans_node(a, node, symb) == perform_inverse_trans_seq(a, OrdSeq(node), symb)

\* A pre that collects the result_nodes of every candidate, whether its
\* sharing_list is within the node or not.
pre_node_symb_all(a, node, symb) ==
    LET candidates == perform_inverse_trans_node(a, node, symb)
        result == UNION { candidates[i].result_nodes : i \in DOMAIN candidates }
    IN  ClosedSet("downward_closed_set", { result })

\* Afa::pre(Node, Symbol)
pre_node_symb(a, node, symb) ==
    LET candidates == perform_inverse_trans_node(a, node, symb)
        result == UNION { candidates[i].result_nodes :
                            i \in { j \in DOMAIN candidates : candidates[j].sharing_list \subseteq node } }
    IN  ClosedSet("downward_closed_set", { result })

RECURSIVE pre_nodes_symb_seq(_, _, _, _)
pre_nodes_symb_seq(a, result, nodes, symb) ==
    IF nodes = << >> THEN result
    ELSE pre_nodes_symb_seq(a, Union(result, pre_node_symb(a, Head(nodes), symb)), Tail(nodes), symb)

\* Afa::pre(Nodes, Symbol)
pre_nodes_symb(a, nodes, symb) ==
    pre_nodes_symb_seq(a, EmptyClosedSet("downward_closed_set"), NodesSeq(nodes), symb)

RECURSIVE pre_node_seq(_, _, _, _)
pre_node_seq(a, result, node, row) ==
    IF row = << >> THEN result
    ELSE pre_node_seq(a, insert_nodes(result, pre_node_symb(a, node, Head(row).symb).antichain),
                      node, Tail(row))

\* Afa::pre(Node): the symbols are those stored at the least state of the node.
pre_node(a, node) ==
    IF node = {} THEN ClosedSet("downward_closed_set", { {} })
    ELSE pre_node_seq(a, EmptyClosedSet("downward_closed_set"), node,
                      a.inverseTransRelation[Min(node) + 1])

RECURSIVE pre_nodes_seq(_, _, _)
pre_nodes_seq(a, result, nodes) ==
    IF nodes = << >> THEN result
    ELSE pre_nodes_seq(a, insert_nodes(result, pre_node(a, Head(nodes)).antichain), Tail(nodes))

\* Afa::pre(Nodes)
pre_nodes(a, nodes) == pre_nodes_seq(a, EmptyClosedSet("downward_closed_set"), NodesSeq(nodes))

\* Afa::pre(StateClosedSet)
pre_closed(a, closed_set) == pre_nodes(a, closed_set.antichain)

(***************************************************************************)
(* The closed sets of initial, non-initial, final and non-final nodes.     *)
(***************************************************************************)
AfaStateSet(a) == 0 .. (NumStates(a) - 1)

\* A closed set of initial nodes that holds no node.
get_initial_nodes_none(a) == EmptyClosedSet("upward_closed_set")

\* Afa::get_initial_nodes()
get_initial_nodes(a) ==
    ClosedSet("upward_closed_set", { { st } : st \in { t \in AfaStateSet(a) : afa_has_initial(a, t) } })

\* Afa::get_non_initial_nodes()
get_non_initial_nodes(a) ==
    ClosedSet("downward_closed_set", { { t \in AfaStateSet(a) : ~afa_has_initial(a, t) } })

\* Afa::get_final_nodes()
get_final_nodes(a) ==
    ClosedSet("downward_closed_set", { { t \in AfaStateSet(a) : afa_has_final(a, t) } })

\* A closed set of non-final nodes that holds no node.
get_non_final_nodes_none(a) == EmptyClosedSet("upward_closed_set")

\* Afa::get_non_final_nodes()
get_non_final_nodes(a) ==
    ClosedSet("upward_closed_set", { { st } : st \in { t \in AfaStateSet(a) : ~afa_has_final(a, t) } })

(***************************************************************************)
(* The antichain emptiness tests.                                          *)
(***************************************************************************)
\* The while loop of antichain_concrete_forward_emptiness_test_old.
RECURSIVE forward_old_loop(_, _, _, _)
forward_old_loop(a, goal, current, next) ==
    IF ClosedEqual(current, next) THEN TRUE
    ELSE LET current2 == next
             next2 == Union(current2, post_closed(a, current2))
         IN  IF ~IsSubsetOfClosed(next2, goal) THEN FALSE
             ELSE forward_old_loop(a, goal, current2, next2)

\* antichain_concrete_forward_emptiness_test_old(aut)
antichain_concrete_forward_emptiness_test_old(a) ==
    forward_old_loop(a, get_non_final_nodes(a), DefaultClosedSet, get_initial_nodes(a))

\* The loop over the nodes of post_current that pushes every node of the
\* goal, processed or not.
RECURSIVE scan_nodes_push_all(_, _, _, _)
scan_nodes_push_all(goal, processed, worklist, nodes) ==
    IF nodes = << >> THEN [ stop |-> FALSE, worklist |-> worklist ]
    ELSE IF ~contains(goal, Head(nodes)) THEN [ stop |-> TRUE, worklist |-> worklist ]
    ELSE scan_nodes_push_all(goal, processed, Append(worklist, Head(nodes)), Tail(nodes))

\* The for loop over the antichain of post_current / pre_current in the worklist
\* tests: stop is set when a node is outside goal (the test returns false).
RECURSIVE scan_nodes(_, _, _, _)
scan_nodes(goal, processed, worklist, nodes) ==
    IF nodes = << >> THEN [ stop |-> FALSE, worklist |-> worklist ]
    ELSE IF ~contains(goal, Head(nodes)) THEN [ stop |-> TRUE, worklist |-> worklist ]
    ELSE scan_nodes(goal, processed,
                    IF Head(nodes) \notin processed THEN Append(worklist, Head(nodes)) ELSE worklist,
                    Tail(nodes))

\* The while loop of antichain_concrete_forward_emptiness_test_new.
RECURSIVE forward_new_loop(_, _, _, _, _)
forward_new_loop(a, goal, result, processed, worklist) ==
    IF worklist = << >> THEN TRUE
    ELSE LET current == worklist[Len(worklist)]
             popped == SubSeq(worklist, 1, Len(worklist) - 1)
             post_current == post_node(a, current)
             result2 == Union(result, post_current)
             scan == scan_nodes(goal, processed, popped, NodesSeq(post_current.antichain))
         IN  IF scan.stop THEN FALSE
             ELSE forward_new_loop(a, goal, result2, processed \cup { current }, scan.worklist)

\* antichain_concrete_forward_emptiness_test_new(aut)
antichain_concrete_forward_emptiness_test_new(a) ==
    LET goal == get_non_final_nodes(a)
        result == get_initial_nodes(a)
        worklist == NodesSeq(get_initial_nodes(a).antichain)
    IN  IF ~IsSubsetOfClosed(result, goal) THEN FALSE
        ELSE forward_new_loop(a, goal, result, {}, worklist)

\* The while loop of antichain_concrete_backward_emptiness_test_old.
RECURSIVE backward_old_loop(_, _, _, _)
backward_old_loop(a, goal, current, next) ==
    IF ClosedEqual(current, next) THEN TRUE
    ELSE LET current2 == next
             next2 == Union(current2, pre_closed(a, current2))
         IN  IF ~IsSubsetOfClosed(next2, goal) THEN FALSE
             ELSE backward_old_loop(a, goal, current2, next2)

\* antichain_concrete_backward_emptiness_test_old(aut)
antichain_concrete_backward_emptiness_test_old(a) ==
    backward_old_loop(a, get_non_initial_nodes(a), DefaultClosedSet, get_final_nodes(a))

\* The while loop of antichain_concrete_backward_emptiness_test_new.
RECURSIVE backward_new_loop(_, _, _, _, _)
backward_new_loop(a, goal, result, processed, worklist) ==
    IF worklist = << >> THEN TRUE
    ELSE LET current == worklist[Len(worklist)]
             popped == SubSeq(worklist, 1, Len(worklist) - 1)
             pre_current == pre_node(a, current)
             result2 == Union(result, pre_current)
             scan == scan_nodes(goal, processed, popped, NodesSeq(pre_current.antichain))
         IN  IF scan.stop THEN FALSE
             ELSE backward_new_loop(a, goal, result2, processed \cup { current }, scan.worklist)

\* antichain_concrete_backward_emptiness_test_new(aut)
antichain_concrete_backward_emptiness_test_new(a) ==
    LET goal == get_non_initial_nodes(a)
        result == get_final_nodes(a)
        worklist == NodesSeq(get_final_nodes(a).antichain)
    IN  IF ~IsSubsetOfClosed(result, goal) THEN FALSE
        ELSE backward_new_loop(a, goal, result, {}, worklist)

(***************************************************************************)
(* The emptiness tests step by step.  The locals of a test are a record:   *)
(* goal, current and next of the iterative tests, result, processed and    *)
(* worklist of the worklist tests; status is "loop" while the while loop   *)
(* runs, then "true" or "false", the value returned.  The forward tests    *)
(* use post, the backward tests pre.                                       *)
(***************************************************************************)
Forward(test) == test \in { "forward_old", "forward_new" }

\* The locals of an iterative test before its while loop.
old_start(a, test) ==
    [ test |-> test, status |-> "loop",
      goal |-> IF Forward(test) THEN get_non_final_nodes(a) ELSE get_non_initial_nodes(a),
      current |-> DefaultClosedSet,
      next |-> IF Forward(test) THEN get_initial_nodes(a) ELSE get_final_nodes(a),
      result |-> DefaultClosedSet, processed |-> {}, worklist |-> << >> ]

\* An iterative step whose next is post or pre of current alone.
old_step_no_union(a, st) ==
    IF ClosedEqual(st.current, st.next) THEN [ st EXCEPT !.status = "true" ]
    ELSE LET next2 == IF Forward(st.test) THEN post_closed(a, st.next) ELSE pre_closed(a, st.next)
         IN  [ st EXCEPT !.current = st.next, !.next = next2,
                         !.status = IF ~IsSubsetOfClosed(next2, st.goal) THEN "false" ELSE "loop" ]

\* The test of the while loop of an iterative test and one run of its body.
old_step(a, st) ==
    IF ClosedEqual(st.current, st.next) THEN [ st EXCEPT !.status = "true" ]
    ELSE LET current2 == st.next
             next2 == Union(current2, IF Forward(st.test) THEN post_closed(a, current2)
                                      ELSE pre_closed(a, current2))
         IN  [ st EXCEPT !.current = current2, !.next = next2,
                         !.status = IF ~IsSubsetOfClosed(next2, st.goal) THEN "false" ELSE "loop" ]

\* The locals of a worklist test before its while loop.
new_start(a, test) ==
    LET goal == IF Forward(test) THEN get_non_final_nodes(a) ELSE get_non_initial_nodes(a)
        result == IF Forward(test) THEN get_initial_nodes(a) ELSE get_final_nodes(a)
    IN  [ test |-> test,
          status |-> IF ~IsSubsetOfClosed(result, goal) THEN "false" ELSE "loop",
          goal |-> goal, current |-> DefaultClosedSet, next |-> DefaultClosedSet,
          result |-> result, processed |-> {}, worklist |-> NodesSeq(result.antichain) ]

\* The test of the while loop of a worklist test and one run of its body.
new_step(a, st) ==
    IF st.worklist = << >> THEN [ st EXCEPT !.status = "true" ]
    ELSE LET current == st.worklist[Len(st.worklist)]
             popped == SubSeq(st.worklist, 1, Len(st.worklist) - 1)
             post_current == IF Forward(st.test) THEN post_node(a, current) ELSE pre_node(a, current)
             result2 == Union(st.result, post_current)
             scan == scan_nodes(st.goal, st.processed, popped, NodesSeq(post_current.antichain))
         IN  IF scan.stop
             THEN [ st EXCEPT !.result = result2, !.worklist = scan.worklist, !.status = "false" ]
             ELSE [ st EXCEPT !.result = result2, !.worklist = scan.worklist,
                              !.processed = @ \cup { current } ]

(***************************************************************************)
(* Acceptance of words by the AFA, from the definition: a configuration C  *)
(* accepts the empty word iff C is a subset of the final states; C accepts *)
(* a.w iff every s in C has a node A_s in delta(s, a) such that the union  *)
(* of the A_s accepts w.  delta(s, a) is what perform_trans returns.       *)
(***************************************************************************)
Delta(a, s, symb) == perform_trans(a, s, symb)

\* Some choice of one node of delta(s, symb) per state s of C has its union in Acc.
StepsInto(a, C, symb, Acc) ==
    \E f \in [ C -> SUBSET AfaStateSet(a) ] :
        /\ \A st \in C : f[st] \in Delta(a, st, symb)
        /\ UNION { f[st] : st \in C } \in Acc

\* The configurations that accept a word of length at most k.
RECURSIVE AcceptingConfigs(_, _)
AcceptingConfigs(a, k) ==
    LET base == { C \in SUBSET AfaStateSet(a) : C \subseteq a.finalstates }
    IN  IF k = 0 THEN base
        ELSE LET shorter == AcceptingConfigs(a, k - 1)
             IN  base \cup { C \in SUBSET AfaStateSet(a) :
                               \E symb \in AfaSymbols : StepsInto(a, C, symb, shorter) }

\* With 2^n configurations, a shortest accepted word is shorter than 2^n.
AfaAcceptsSomeWord(a) ==
    \E st \in a.initialstates : { st } \in AcceptingConfigs(a, 2 ^ NumStates(a))

(***************************************************************************)
(* The AFA as a state machine: transitions are added, and the emptiness    *)
(* tests are run on the automaton as it stands.                            *)
(***************************************************************************)
NoVerdicts ==
    [ tested |-> FALSE, forward_old |-> FALSE, forward_new |-> FALSE,
      backward_old |-> FALSE, backward_new |-> FALSE ]

NfaIdle ==
    /\ lhs = EmptyNfa /\ rhs = EmptyNfa /\ preserve_epsilon = FALSE
    /\ product = EmptyNfa /\ product_map = << >> /\ pairs_to_process = {}
    /\ pair_to_process = << 0, 0 >> /\ prod_map = << >>

AfaInputs(states, initials, finals) ==
    /\ pc = "afa"
    /\ \E I \in initials, F \in finals :
          afa = NewAfa(Cardinality(states), I, F)
    /\ ncalls = 0
    /\ verdicts = NoVerdicts
    /\ NfaIdle
    /\ IoIdle

\* Destinations given to add_trans alone: any Nodes value of at most two nodes,
\* the empty Nodes value and the empty node included.
PostDsts == SubsetsUpTo(SUBSET PostStates, 2)

\* Destinations given to add_trans and add_inverse_trans: one non-empty node
\* (add_inverse_trans reads *(node.begin()) of every node).
BothDsts == { { A } : A \in (SUBSET BothStates) \ { {} } }

\* aut.add_trans(trans)
AddTrans ==
    /\ pc = "afa"
    /\ trans_size(afa) < MaxStored
    /\ \E src \in PostStates, symb \in AfaSymbols, dst \in PostDsts :
          afa' = add_trans(afa, [ src |-> src, symb |-> symb, dst |-> dst ])
    /\ verdicts' = NoVerdicts
    /\ UNCHANGED << pc, ncalls >>
    /\ UNCHANGED ioVars
    /\ UNCHANGED nfaVars

\* aut.add_trans(trans); aut.add_inverse_trans(trans)
AddTransBoth ==
    /\ pc = "afa"
    /\ ncalls < MaxAfaTrans
    /\ \E src \in BothStates, symb \in BothSymbols, dst \in BothDsts :
          LET trans == [ src |-> src, symb |-> symb, dst |-> dst ]
          IN  afa' = add_inverse_trans(add_trans(afa, trans), trans)
    /\ ncalls' = ncalls + 1
    /\ verdicts' = NoVerdicts
    /\ UNCHANGED pc
    /\ UNCHANGED ioVars
    /\ UNCHANGED nfaVars

\* The two forward emptiness tests, run on the automaton.
ForwardTests ==
    /\ pc = "afa"
    /\ ~verdicts.tested
    /\ verdicts' = [ NoVerdicts EXCEPT
                       !.tested = TRUE,
                       !.forward_old = antichain_concrete_forward_emptiness_test_old(afa),
                       !.forward_new = antichain_concrete_forward_emptiness_test_new(afa) ]
    /\ UNCHANGED << pc, afa, ncalls >>
    /\ UNCHANGED ioVars
    /\ UNCHANGED nfaVars

\* The four emptiness tests, run on the automaton.
EmptinessTests ==
    /\ pc = "afa"
    /\ ~verdicts.tested
    /\ verdicts' = [ tested |-> TRUE,
                     forward_old |-> antichain_concrete_forward_emptiness_test_old(afa),
                     forward_new |-> antichain_concrete_forward_emptiness_test_new(afa),
                     backward_old |-> antichain_concrete_backward_emptiness_test_old(afa),
                     backward_new |-> antichain_concrete_backward_emptiness_test_new(afa) ]
    /\ UNCHANGED << pc, afa, ncalls >>
    /\ UNCHANGED ioVars
    /\ UNCHANGED nfaVars

AfaStoreInit == AfaInputs(PostStates, { {} }, { {} })

AfaStoreNext == AddTrans

\* The forward store alone.
SpecAfaStore == AfaStoreInit /\ [][AfaStoreNext]_vars

AfaPostInit == AfaInputs(PostStates, SUBSET PostStates, SUBSET PostStates)

AfaPostNext == AddTrans \/ ForwardTests

\* The forward store and the forward tests.
SpecAfaPost == AfaPostInit /\ [][AfaPostNext]_vars

AfaBothInit == AfaInputs(BothStates, SUBSET BothStates, SUBSET BothStates)

AfaBothNext == AddTransBoth \/ EmptinessTests

\* Both stores and the four tests.
SpecAfa == AfaBothInit /\ [][AfaBothNext]_vars

(***************************************************************************)
(* An AFA of two states on which one emptiness test runs step by step.     *)
(***************************************************************************)
RunStates == { 0, 1 }

\* Destinations of one or two non-empty nodes; { {0}, {0, 1} } is not reduced.
RunDsts == SubsetsUpTo((SUBSET RunStates) \ { {} }, 2) \ { {} }

AfaRunInit ==
    /\ pc = "afa"
    /\ \E I \in SUBSET RunStates, F \in SUBSET RunStates :
          afa = NewAfa(Cardinality(RunStates), I, F)
    /\ ncalls = 0
    /\ verdicts = NoVerdicts
    /\ NfaIdle
    /\ IoIdle

\* aut.add_trans(trans); aut.add_inverse_trans(trans), before a test starts.
AddTransRun ==
    /\ pc = "afa"
    /\ run = NoRun
    /\ reply = NoReply
    /\ ncalls < MaxAfaTrans
    /\ \E src \in RunStates, symb \in BothSymbols, dst \in RunDsts :
          LET trans == [ src |-> src, symb |-> symb, dst |-> dst ]
          IN  afa' = add_inverse_trans(add_trans(afa, trans), trans)
    /\ ncalls' = ncalls + 1
    /\ UNCHANGED << pc, verdicts, reply, ndebug, state_map, run >>
    /\ UNCHANGED nfaVars

\* An iterative test is called: lines 615-617 and 687-689.
StartOld ==
    /\ pc = "afa"
    /\ run = NoRun
    /\ \E test \in { "forward_old", "backward_old" } : run' = old_start(afa, test)
    /\ UNCHANGED << pc, afa, ncalls, verdicts, reply, ndebug, state_map >>
    /\ UNCHANGED nfaVars

\* A worklist test is called: lines 643-655 and 716-728.
StartNew ==
    /\ pc = "afa"
    /\ run = NoRun
    /\ \E test \in { "forward_new", "backward_new" } : run' = new_start(afa, test)
    /\ UNCHANGED << pc, afa, ncalls, verdicts, reply, ndebug, state_map >>
    /\ UNCHANGED nfaVars

\* One evaluation of while (current != next) and of its body.
OldStep ==
    /\ pc = "afa"
    /\ run.test \in { "forward_old", "backward_old" }
    /\ run.status = "loop"
    /\ run' = old_step(afa, run)
    /\ UNCHANGED << pc, afa, ncalls, verdicts, reply, ndebug, state_map >>
    /\ UNCHANGED nfaVars

\* One evaluation of while (!worklist.empty()) and of its body.
NewStep ==
    /\ pc = "afa"
    /\ run.test \in { "forward_new", "backward_new" }
    /\ run.status = "loop"
    /\ run' = new_step(afa, run)
    /\ UNCHANGED << pc, afa, ncalls, verdicts, reply, ndebug, state_map >>
    /\ UNCHANGED nfaVars

AfaRunNext == AddTransRun \/ StartOld \/ StartNew \/ OldStep \/ NewStep

\* Both stores and one emptiness test, step by step.
SpecAfaRun == AfaRunInit /\ [][AfaRunNext]_vars

\* A test is in its while loop: OldStep or NewStep is enabled.
OldRunning == run.test \in { "forward_old", "backward_old" } /\ run.status = "loop"

NewRunning == run.test \in { "forward_new", "backward_new" } /\ run.status = "loop"

\* ENABLED <<OldStep>>_vars and ENABLED <<NewStep>>_vars, written out.
OldStepEnabled == OldRunning /\ old_step(afa, run) # run

NewStepEnabled == NewRunning /\ new_step(afa, run) # run

\* The same, where a test that was called goes on running: weak fairness of
\* OldStep and of NewStep, that is WF_vars(OldStep) /\ WF_vars(NewStep) with
\* the two enabling conditions written out.
SpecAfaRunLive ==
    /\ SpecAfaRun
    /\ ([]<>(~OldStepEnabled) \/ []<><<OldStep>>_vars)
    /\ ([]<>(~NewStepEnabled) \/ []<><<NewStep>>_vars)

\* A test that ended returned what the test run at once returns.
RunAgrees ==
    (run.test # "none" /\ run.status # "loop") =>
        (run.status = "true") =
            CASE run.test = "forward_old" -> antichain_concrete_forward_emptiness_test_old(afa)
              [] run.test = "forward_new" -> antichain_concrete_forward_emptiness_test_new(afa)
              [] run.test = "backward_old" -> antichain_concrete_backward_emptiness_test_old(afa)
              [] run.test = "backward_new" -> antichain_concrete_backward_emptiness_test_new(afa)

(***************************************************************************)
(* Requests to the AFA and what they come to.  A request returns a value,  *)
(* fails an assert (the program aborts; only where NDEBUG is not defined:  *)
(* the Makefile builds Debug and Release), or has undefined behaviour: the *)
(* index of a vector is out of range, and the request crashes or returns   *)
(* any value.                                                              *)
(***************************************************************************)
Returned(value) == [ kind |-> "returned", value |-> value ]

AssertFailed == [ kind |-> "assert_failed" ]

Undefined(values) == { [ kind |-> "crash" ] } \cup { Returned(v) : v \in values }

\* The states a request may name: those of the automaton and one beyond.
RequestStates(a) == 0 .. NumStates(a)

InRange(a, node) == \A st \in node : st < NumStates(a)

\* Values an out-of-range read may yield.
AnyNodes == SubsetsUpTo(SUBSET RunStates, 2)

AnyInverseResults(a) ==
    { << >> } \cup UNION { { a.inverseTransRelation[i][j].inverseResults :
                                 j \in DOMAIN a.inverseTransRelation[i] } :
                             i \in DOMAIN a.inverseTransRelation }

\* Afa::perform_trans(src, symb), the assert of line 169 included.
perform_trans_request(a, nd, src, symb) ==
    IF src < NumStates(a) THEN { Returned(perform_trans(a, src, symb)) }
    ELSE IF ~nd THEN { AssertFailed }
    ELSE Undefined(AnyNodes)

\* Afa::post(State, Symbol): the outcome of perform_trans, made a closed set.
post_state_symb_request(a, nd, state, symb) ==
    { IF o.kind # "returned" THEN o
      ELSE Returned(IF o.value # {} THEN ClosedSet("upward_closed_set", o.value)
                    ELSE EmptyClosedSet("upward_closed_set")) :
        o \in perform_trans_request(a, nd, state, symb) }

\* Afa::post(Node, Symbol): post(state, symb) for each state of the node.
post_node_symb_request(a, nd, node, symb) ==
    IF InRange(a, node) THEN { Returned(post_node_symb(a, node, symb)) }
    ELSE IF ~nd THEN { AssertFailed }
    ELSE Undefined({ ClosedSet("upward_closed_set", NS) : NS \in AnyNodes })

\* Afa::perform_inverse_trans(State, Symbol): line 335 reads
\* inverseTransRelation[src] without a test of src.
perform_inverse_trans_request(a, nd, src, symb) ==
    IF src < NumStates(a) THEN { Returned(perform_inverse_trans(a, src, symb)) }
    ELSE Undefined(AnyInverseResults(a))

\* Afa::perform_inverse_trans(Node, Symbol)
perform_inverse_trans_node_request(a, nd, node, symb) ==
    IF InRange(a, node) THEN { Returned(perform_inverse_trans_node(a, node, symb)) }
    ELSE Undefined(AnyInverseResults(a))

\* Afa::pre(Node, Symbol)
pre_node_symb_request(a, nd, node, symb) ==
    IF InRange(a, node) THEN { Returned(pre_node_symb(a, node, symb)) }
    ELSE Undefined({ ClosedSet("downward_closed_set", NS) : NS \in AnyNodes })

\* Afa::post(StateClosedSet, Symbol), the assert of line 268 included.
post_closed_symb_request(a, nd, closed_set, symb) ==
    IF closed_set.type # "upward_closed_set" /\ ~nd THEN { AssertFailed }
    ELSE { Returned(post_nodes_symb(a, closed_set.antichain, symb)) }

\* Afa::pre(StateClosedSet, Symbol), the assert of line 415 included.
pre_closed_symb_request(a, nd, closed_set, symb) ==
    IF closed_set.type # "downward_closed_set" /\ ~nd THEN { AssertFailed }
    ELSE { Returned(pre_nodes_symb(a, closed_set.antichain, symb)) }

(***************************************************************************)
(* The caller of the requests: transitions are added, then one request is  *)
(* made and its outcome is kept in reply.  The build is Debug (ndebug      *)
(* FALSE) or Release (ndebug TRUE).                                        *)
(***************************************************************************)
Builds == BOOLEAN

RequestNodes(a) == (SUBSET RequestStates(a)) \ { {} }

RequestClosedSets ==
    { ClosedSet(type, NS) : type \in { "upward_closed_set", "downward_closed_set" },
                            NS \in AnyNodes }

AfaCallsInit ==
    /\ pc = "afa"
    /\ afa = NewAfa(Cardinality(RunStates), {}, {})
    /\ ncalls = 0
    /\ verdicts = NoVerdicts
    /\ NfaIdle
    /\ run = NoRun
    /\ reply = NoReply
    /\ ndebug \in Builds
    /\ state_map = << >>

Replied(op, arg, symb, outcome) ==
    /\ pc = "afa"
    /\ reply = NoReply
    /\ reply' = [ op |-> op, arg |-> arg, symb |-> symb, outcome |-> outcome ]
    /\ UNCHANGED << pc, afa, ncalls, verdicts, run, ndebug, state_map >>
    /\ UNCHANGED nfaVars

\* perform_trans(src, symb) and post(state, symb) are called.
StateRequest ==
    \E src \in RequestStates(afa), symb \in BothSymbols :
        \/ \E o \in perform_trans_request(afa, ndebug, src, symb) :
              Replied("perform_trans", src, symb, o)
        \/ \E o \in post_state_symb_request(afa, ndebug, src, symb) :
              Replied("post_state_symb", src, symb, o)
        \/ \E o \in perform_inverse_trans_request(afa, ndebug, src, symb) :
              Replied("perform_inverse_trans", src, symb, o)

\* post(node, symb), perform_inverse_trans(node, symb) and pre(node, symb)
\* are called.
NodeRequest ==
    \E node \in RequestNodes(afa), symb \in BothSymbols :
        \/ \E o \in post_node_symb_request(afa, ndebug, node, symb) :
              Replied("post_node_symb", node, symb, o)
        \/ \E o \in perform_inverse_trans_node_request(afa, ndebug, node, symb) :
              Replied("perform_inverse_trans_node", node, symb, o)
        \/ \E o \in pre_node_symb_request(afa, ndebug, node, symb) :
              Replied("pre_node_symb", node, symb, o)

\* post(closed_set, symb) and pre(closed_set, symb) are called.
ClosedSetRequest ==
    \E closed_set \in RequestClosedSets, symb \in BothSymbols :
        \/ \E o \in post_closed_symb_request(afa, ndebug, closed_set, symb) :
              Replied("post_closed_symb", closed_set, symb, o)
        \/ \E o \in pre_closed_symb_request(afa, ndebug, closed_set, symb) :
              Replied("pre_closed_symb", closed_set, symb, o)

AfaCallsNext == AddTransRun \/ StateRequest \/ NodeRequest \/ ClosedSetRequest

SpecAfaCalls == AfaCallsInit /\ [][AfaCallsNext]_vars

(***************************************************************************)
(* Mata::Afa::construct: an automaton is filled from a parsed section.  A  *)
(* map of names is a set of pairs; NullMap is the null pointer.  Of the    *)
(* transitions only the name of the source state is read (lines 923-935).  *)
(***************************************************************************)
TYPE_AFA == "AFA"

NullMap == [ given |-> FALSE, names |-> {} ]

GivenMap(names) == [ given |-> TRUE, names |-> names ]

WrongType == [ kind |-> "wrong_type" ]

InvalidTransition == [ kind |-> "invalid_transition" ]

Done == [ kind |-> "done" ]

\* The lambda get_state_name of lines 892-896.
get_state_name(names, cnt_state, str) ==
    IF \E p \in names : p[1] = str
    THEN [ names |-> names, cnt_state |-> cnt_state,
           state |-> (CHOOSE p \in names : p[1] = str)[2] ]
    ELSE [ names |-> names \cup { << str, cnt_state >> }, cnt_state |-> cnt_state + 1,
           state |-> cnt_state ]

\* The loops of lines 904-920: each name is translated, its state inserted.
RECURSIVE name_states(_, _, _, _)
name_states(names, cnt_state, strs, states) ==
    IF strs = << >> THEN [ names |-> names, cnt_state |-> cnt_state, states |-> states ]
    ELSE LET got == get_state_name(names, cnt_state, Head(strs))
         IN  name_states(got.names, got.cnt_state, Tail(strs), states \cup { got.state })

\* The loop of lines 923-941 over the lines of the body.
RECURSIVE body_lines(_, _, _)
body_lines(names, cnt_state, body) ==
    IF body = << >> THEN [ names |-> names, outcome |-> Done ]
    ELSE IF Len(Head(body)) < 2 THEN [ names |-> names, outcome |-> InvalidTransition ]
    ELSE LET got == get_state_name(names, cnt_state, Head(body)[1])
         IN  body_lines(got.names, got.cnt_state, Tail(body))

\* Lines 883-945: what construct does once the type is accepted.  A map the
\* call made itself is deleted at the end, the caller's map keeps the names.
construct_body(aut, parsec, map) ==
    LET ini == name_states(IF map.given THEN map.names ELSE {}, 0, parsec.Initial, {})
        fin == name_states(ini.names, ini.cnt_state, parsec.Final, {})
        body == body_lines(fin.names, fin.cnt_state, parsec.body)
    IN  [ aut |-> [ aut EXCEPT !.initialstates = @ \cup ini.states,
                               !.finalstates = @ \cup fin.states ],
          state_map |-> IF map.given THEN GivenMap(body.names) ELSE NullMap,
          outcome |-> body.outcome ]

construct_type_last(aut, parsec, map) ==
    LET made == construct_body(aut, parsec, map)
    IN  IF parsec.type # TYPE_AFA THEN [ made EXCEPT !.outcome = WrongType ] ELSE made

\* Mata::Afa::construct(aut, parsec, alphabet, state_map)
construct(aut, parsec, map) ==
    IF parsec.type # TYPE_AFA
    THEN [ aut |-> aut, state_map |-> map, outcome |-> WrongType ]
    ELSE construct_body(aut, parsec, map)

\* Mata::Afa::construct(aut, parsec, symbol_map, state_map): a symbol map is
\* made when none is given, the first construct is called, the symbol map
\* is released whether the call threw or not.
construct_symbol_map(aut, parsec, map) == construct(aut, parsec, map)

StateNames == { "p", "q" }

NameLists == { << >> } \cup { << n >> : n \in StateNames }
                 \cup { << n, m >> : n \in StateNames, m \in StateNames }

BodyLines == { << n >> : n \in StateNames } \cup { << n, "a" >> : n \in StateNames }

ParsedSections ==
    { [ type |-> type, Initial |-> ini, Final |-> fin, body |-> body ] :
        type \in { TYPE_AFA, "NFA" }, ini \in NameLists, fin \in NameLists,
        body \in { << >> } \cup { << l >> : l \in BodyLines } }

\* The maps of at most two names a caller may hand in, and no map at all.
CallerMaps ==
    { NullMap } \cup { GivenMap(names) : names \in
        { ns \in SUBSET (StateNames \X RunStates) :
            \A p1, p2 \in ns : p1[1] = p2[1] => p1 = p2 } }

AfaConstructInit ==
    /\ pc = "afa"
    /\ \E I \in SUBSET RunStates, F \in SUBSET RunStates :
          afa = NewAfa(Cardinality(RunStates), I, F)
    /\ ncalls = 0
    /\ verdicts = NoVerdicts
    /\ NfaIdle
    /\ run = NoRun
    /\ reply = NoReply
    /\ ndebug = FALSE
    /\ state_map \in CallerMaps

Constructed(op, parsec, made) ==
    /\ afa' = made.aut
    /\ state_map' = made.state_map
    /\ reply' = [ op |-> op, arg |-> parsec, outcome |-> made.outcome ]

\* One of the two overloads of construct is called on the automaton.
Construct ==
    /\ pc = "afa"
    /\ reply = NoReply
    /\ \E parsec \in ParsedSections :
          \/ Constructed("construct", parsec, construct(afa, parsec, state_map))
          \/ Constructed("construct_symbol_map", parsec,
                         construct_symbol_map(afa, parsec, state_map))
    /\ UNCHANGED << pc, ncalls, verdicts, run, ndebug >>
    /\ UNCHANGED nfaVars

SpecAfaConstruct == AfaConstructInit /\ [][Construct]_vars

(***************************************************************************)
(* Mata::Afa::serialize: the automaton is written as a parsed section.  A  *)
(* map given by the caller pairs an identifier with its name; without a    *)
(* map the name is made of a letter and the number.                        *)
(***************************************************************************)
Translation(state) == [ kind |-> "translation", state |-> state ]

\* state_namer and symbol_namer of lines 778-805: << found, name >>.
namer(map, letter, id) ==
    IF ~map.given THEN << TRUE, << letter, id >> >>
    ELSE IF \E p \in map.names : p[1] = id
         THEN << TRUE, (CHOOSE p \in map.names : p[1] = id)[2] >>
         ELSE << FALSE, "" >>

state_namer(state_map_, st) == namer(state_map_, "q", st)

symbol_namer(symbol_map, sym) == namer(symbol_map, "a", sym)

\* The loops of lines 808-823 over the states of a set, in their order.
RECURSIVE names_of(_, _, _)
names_of(state_map_, states, names) ==
    IF states = << >> THEN Returned(names)
    ELSE LET bsp == state_namer(state_map_, Head(states))
         IN  IF ~bsp[1] THEN Translation(Head(states))
             ELSE names_of(state_map_, Tail(states), Append(names, bsp[2]))

\* Mata::Afa::serialize(aut, symbol_map, state_map).  The initial and the
\* final states are written; line 825 leaves the transitions out, and
\* symbol_namer is never called.
serialize(aut, symbol_map, state_map_) ==
    LET init_states == names_of(state_map_, OrdSeq(aut.initialstates), << >>)
        fin_states == names_of(state_map_, OrdSeq(aut.finalstates), << >>)
    IN  IF init_states.kind # "returned" THEN init_states
        ELSE IF fin_states.kind # "returned" THEN fin_states
        ELSE Returned([ type |-> TYPE_AFA, Initial |-> init_states.value,
                        Final |-> fin_states.value, body |-> << >> ])

\* The maps from states and from symbols a caller may hand in.
StateNameMaps ==
    { NullMap } \cup { GivenMap(names) : names \in SUBSET { << 0, "p" >>, << 1, "q" >> } }

SymbolNameMaps == { NullMap } \cup { GivenMap(names) : names \in SUBSET { << 0, "a" >> } }

\* serialize is called on the automaton.
Serialize ==
    /\ pc = "afa"
    /\ run = NoRun
    /\ reply = NoReply
    /\ \E symbol_map \in SymbolNameMaps, names \in StateNameMaps :
          reply' = [ op |-> "serialize", symbol_map |-> symbol_map, state_map |-> names,
                     outcome |-> serialize(afa, symbol_map, names) ]
    /\ UNCHANGED << pc, afa, ncalls, verdicts, run, ndebug, state_map >>
    /\ UNCHANGED nfaVars

AfaSerializeNext == AddTransRun \/ Serialize

SpecAfaSerialize == AfaRunInit /\ [][AfaSerializeNext]_vars

(***************************************************************************)
(* The inverse store alone: add_inverse_trans is called with transitions   *)
(* whose destination nodes are not empty, and the last call is kept in     *)
(* reply.                                                                  *)
(***************************************************************************)
AfaInverseInit ==
    /\ pc = "afa"
    /\ afa = NewAfa(Cardinality(RunStates), {}, {})
    /\ ncalls = 0
    /\ verdicts = NoVerdicts
    /\ NfaIdle
    /\ IoIdle

\* aut.add_inverse_trans(trans)
AddInverseTrans ==
    /\ pc = "afa"
    /\ ncalls < MaxAfaTrans
    /\ \E src \in RunStates, symb \in AfaSymbols, dst \in RunDsts :
          LET trans == [ src |-> src, symb |-> symb, dst |-> dst ]
          IN  /\ afa' = add_inverse_trans(afa, trans)
              /\ reply' = [ op |-> "add_inverse_trans", arg |-> trans ]
    /\ ncalls' = ncalls + 1
    /\ UNCHANGED << pc, verdicts, run, ndebug, state_map >>
    /\ UNCHANGED nfaVars

SpecAfaInverse == AfaInverseInit /\ [][AddInverseTrans]_vars

(***************************************************************************)
(* Properties of the AFA.                                                  *)
(***************************************************************************)
\* C5: the four emptiness tests return the same boolean on an AFA whose
\* transitions were all given to add_trans and to add_inverse_trans.
C5_EmptinessAgreement ==
    verdicts.tested =>
        /\ verdicts.forward_old = verdicts.forward_new
        /\ verdicts.forward_new = verdicts.backward_old
        /\ verdicts.backward_old = verdicts.backward_new

\* C6: each forward emptiness test returns true iff no initial state accepts a
\* word, by the acceptance of words over the forward relation.
C6_ForwardEmptiness ==
    verdicts.tested =>
        /\ verdicts.forward_old = ~AfaAcceptsSomeWord(afa)
        /\ verdicts.forward_new = ~AfaAcceptsSomeWord(afa)

\* The forward tests ran and returned false on an AFA whose shortest accepted
\* word has two symbols.
C6_Witness ==
    /\ verdicts.tested
    /\ ~verdicts.forward_old /\ ~verdicts.forward_new
    /\ \A st \in afa.initialstates : { st } \notin AcceptingConfigs(afa, 1)

\* C7: each backward emptiness test returns true iff no initial state accepts a
\* word, on an AFA whose transitions were all given to both stores.
C7_BackwardEmptiness ==
    verdicts.tested =>
        /\ verdicts.backward_old = ~AfaAcceptsSomeWord(afa)
        /\ verdicts.backward_new = ~AfaAcceptsSomeWord(afa)

\* Every stored transition has a destination of at least one node.
NoEmptyDst ==
    \A i \in DOMAIN afa.transRelation : \A j \in DOMAIN afa.transRelation[i] :
        afa.transRelation[i][j].dst # {}

\* C8: after add_trans(src, symb, {A}), perform_trans(src, symb) holds a node
\* that is a subset of A, whatever add_trans calls came before; stated for the
\* calls that come after transitions with non-empty destinations only.
C8_RoundTrip ==
    NoEmptyDst =>
        \A src \in PostStates, symb \in AfaSymbols, A \in SUBSET PostStates :
            LET after == add_trans(afa, [ src |-> src, symb |-> symb, dst |-> { A } ])
            IN  \E B \in perform_trans(after, src, symb) : B \subseteq A

\* C9: add_trans(src, symb, {A}) called twice in a row leaves the forward
\* relation as the first call left it.
C9_Idempotent ==
    \A src \in PostStates, symb \in AfaSymbols, A \in SUBSET PostStates :
        LET trans == [ src |-> src, symb |-> symb, dst |-> { A } ]
            once == add_trans(afa, trans)
            twice == add_trans(once, trans)
        IN  twice.transRelation = once.transRelation

\* C10: for nodes N a subset of N', post(N', symb) is included in post(N, symb)
\* and post(N') in post(N); for Nodes NS a subset of NS', post(NS) is included
\* in post(NS').
C10_PostMonotone ==
    LET ofNodeSymb == { << N, symb, post_node_symb(afa, N, symb) >> :
                            N \in SUBSET PostStates, symb \in AfaSymbols }
        ofNode == { << N, post_node(afa, N) >> : N \in SUBSET PostStates }
        ofNodes == { << NS, post_nodes(afa, NS) >> : NS \in SUBSET SUBSET PostStates }
    IN  /\ \A p1 \in ofNodeSymb, p2 \in ofNodeSymb :
              (p1[1] \subseteq p2[1] /\ p1[2] = p2[2]) => IsSubsetOfClosed(p2[3], p1[3])
        /\ \A p1 \in ofNode, p2 \in ofNode :
              p1[1] \subseteq p2[1] => IsSubsetOfClosed(p2[2], p1[2])
        /\ \A p1 \in ofNodes, p2 \in ofNodes :
              p1[1] \subseteq p2[1] => IsSubsetOfClosed(p1[2], p2[2])

\* Both states have transitions on one symbol, state 0 to two incomparable
\* nodes: post({0,1}, symb) is not empty and is properly below post({1}, symb).
C10_Witness ==
    \E symb \in AfaSymbols :
        /\ Cardinality(perform_trans(afa, 0, symb)) = 2
        /\ post_node_symb(afa, { 0, 1 }, symb).antichain # {}
        /\ ~IsSubsetOfClosed(post_node_symb(afa, { 1 }, symb), post_node_symb(afa, { 0, 1 }, symb))

\* The AFA has no transition in either store.
NoTransitions ==
    /\ \A i \in DOMAIN afa.transRelation : afa.transRelation[i] = << >>
    /\ \A i \in DOMAIN afa.inverseTransRelation : afa.inverseTransRelation[i] = << >>

AllVerdicts(b) ==
    /\ verdicts.forward_old = b /\ verdicts.forward_new = b
    /\ verdicts.backward_old = b /\ verdicts.backward_new = b

\* C12: when some state is both initial and final, the four emptiness tests
\* return false, whatever the transitions.
C12_InitialFinal ==
    (verdicts.tested /\ afa.initialstates \cap afa.finalstates # {}) => AllVerdicts(FALSE)

\* The tests ran on an AFA with transitions in which state 1 alone is both
\* initial and final.
C12_Witness ==
    /\ verdicts.tested
    /\ afa.initialstates \cap afa.finalstates = { 1 }
    /\ ~NoTransitions
    /\ AllVerdicts(FALSE)

\* C13: without transitions and with disjoint initial and final states, the
\* four emptiness tests return true.
C13_TriviallyEmpty ==
    (verdicts.tested /\ NoTransitions /\ afa.initialstates \cap afa.finalstates = {})
        => AllVerdicts(TRUE)

\* The tests ran on an AFA without transitions whose final set is empty and
\* whose initial set is not.
C13_Witness ==
    /\ verdicts.tested
    /\ NoTransitions
    /\ afa.finalstates = {} /\ afa.initialstates # {}
    /\ AllVerdicts(TRUE)

\* No two distinct nodes of the antichain are comparable under subset.
IsAntichain(cs) == \A A, B \in cs.antichain : A \subseteq B => A = B

\* The closed sets the post and pre overloads return on the nodes, the Nodes
\* values and the closed sets over RunStates.
PostPreResults ==
    LET allNodes == SUBSET RunStates
        allNodeSets == SUBSET allNodes
    IN  { post_state_symb(afa, st, symb) : st \in RunStates, symb \in BothSymbols }
        \cup { post_node_symb(afa, N, symb) : N \in allNodes, symb \in BothSymbols }
        \cup { post_nodes_symb(afa, NS, symb) : NS \in allNodeSets, symb \in BothSymbols }
        \cup { post_node(afa, N) : N \in allNodes }
        \cup { post_nodes(afa, NS) : NS \in allNodeSets }
        \cup { post_closed(afa, ClosedSet("upward_closed_set", NS)) : NS \in allNodeSets }
        \cup { pre_node_symb(afa, N, symb) : N \in allNodes, symb \in BothSymbols }
        \cup { pre_nodes_symb(afa, NS, symb) : NS \in allNodeSets, symb \in BothSymbols }
        \cup { pre_node(afa, N) : N \in allNodes }
        \cup { pre_nodes(afa, NS) : NS \in allNodeSets }
        \cup { pre_closed(afa, ClosedSet("downward_closed_set", NS)) : NS \in allNodeSets }

C14_IterationMonotone ==
    /\ [][OldStep => IsSubsetOfClosed(run.next, run'.next)]_vars
    /\ OldRunning ~> (run.status \in { "true", "false" })

\* An iterative test returned true with a next that grew beyond its seed.
C14_Witness ==
    /\ run.test \in { "forward_old", "backward_old" }
    /\ run.status = "true"
    /\ ClosedEqual(run.current, run.next)
    /\ ~IsSubsetOfClosed(run.next, old_start(afa, run.test).next)


\* C15: post over a closed set and a symbol needs an upward-closed set and
\* pre needs a downward-closed one: a call with the other direction fails an
\* assertion, and a call with the right direction returns the post (the pre)
\* of the antichain of the set.
C15_DirectionAsserted ==
    /\ (reply.op = "post_closed_symb") =>
          IF reply.arg.type = "upward_closed_set"
          THEN reply.outcome = Returned(post_nodes_symb(afa, reply.arg.antichain, reply.symb))
          ELSE reply.outcome = AssertFailed
    /\ (reply.op = "pre_closed_symb") =>
          IF reply.arg.type = "downward_closed_set"
          THEN reply.outcome = Returned(pre_nodes_symb(afa, reply.arg.antichain, reply.symb))
          ELSE reply.outcome = AssertFailed

\* C16: a request to compute successors or predecessors that names a state
\* outside the automaton's state range fails an out-of-bounds assertion.
C16_OutOfRangeAsserted ==
    /\ (reply.op \in { "perform_trans", "post_state_symb", "perform_inverse_trans" }
          /\ reply.arg >= NumStates(afa))
          => reply.outcome = AssertFailed
    /\ (reply.op \in { "post_node_symb", "perform_inverse_trans_node", "pre_node_symb" }
          /\ ~InRange(afa, reply.arg))
          => reply.outcome = AssertFailed


\* C17: construct called with a section whose type is not "AFA" fails with a
\* wrong-type error, and the initial states, the final states and the
\* caller's map of state names are then as they were before the call; this
\* holds for both overloads of construct.
C17_WrongTypeFirst ==
    [][ (reply = NoReply /\ reply'.op \in { "construct", "construct_symbol_map" }
           /\ reply'.arg.type # TYPE_AFA)
          => /\ reply'.outcome = WrongType
             /\ afa'.initialstates = afa.initialstates
             /\ afa'.finalstates = afa.finalstates
             /\ state_map' = state_map ]_vars

\* A section of another type that names an initial state the caller's map
\* does not hold has been refused.
C17_Witness ==
    /\ reply.op \in { "construct", "construct_symbol_map" }
    /\ reply.arg.type # TYPE_AFA
    /\ reply.outcome = WrongType
    /\ state_map.given
    /\ \E n \in StateNames :
          /\ \E i \in DOMAIN reply.arg.Initial : reply.arg.Initial[i] = n
          /\ \A p \in state_map.names : p[1] # n


\* The states and the symbols an automaton uses: its initial and final
\* states, the sources and the targets of its transitions, their symbols.
UsedStates(a) ==
    a.initialstates \cup a.finalstates
      \cup { st \in 0 .. NumStates(a) - 1 : a.transRelation[st + 1] # << >> }
      \cup UNION { UNION { UNION a.transRelation[st + 1][i].dst :
                             i \in DOMAIN a.transRelation[st + 1] } :
                     st \in 0 .. NumStates(a) - 1 }

UsedSymbols(a) ==
    UNION { { a.transRelation[st + 1][i].symb : i \in DOMAIN a.transRelation[st + 1] } :
              st \in 0 .. NumStates(a) - 1 }

\* C18: serialize fails with a translation error whenever the automaton uses
\* a state or a symbol that the map given for it does not name: an initial
\* or final state, a state that is only the source or a target of a
\* transition, a symbol of a transition.
C18_UnnamedFails ==
    (reply.op = "serialize"
       /\ \/ \E st \in UsedStates(afa) : ~state_namer(reply.state_map, st)[1]
          \/ \E sym \in UsedSymbols(afa) : ~symbol_namer(reply.symbol_map, sym)[1])
      => reply.outcome.kind = "translation"


\* C22: both worklist emptiness tests terminate, on automata with cyclic
\* transitions too: no iteration pushes a node that is already in processed,
\* and a running test comes to return true or false.
C22_WorklistTestsTerminate ==
    /\ [][(NewStep /\ run.worklist # << >>) =>
            \A i \in Len(run.worklist) .. Len(run'.worklist) :
                run'.worklist[i] \notin run.processed]_vars
    /\ NewRunning ~> (run.status \in { "true", "false" })

\* A worklist test has returned true after processing a node whose post
\* (pre, for the backward test) holds the node itself.
C22_Witness ==
    /\ run.test \in { "forward_new", "backward_new" }
    /\ run.status = "true"
    /\ \E N \in run.processed :
          N \in (IF Forward(run.test) THEN post_node(afa, N) ELSE pre_node(afa, N)).antichain


\* The inverse-results with sharing_list A that perform_inverse_trans(min(A),
\* symb) returns for the automaton a.
SharedResults(a, A, symb) ==
    LET results == perform_inverse_trans(a, Min(A), symb)
    IN  { results[i] : i \in { j \in DOMAIN results : results[j].sharing_list = A } }

\* C23: when add_inverse_trans(src, symb, dst) finds, for a node A of dst, an
\* inverse-result with sharing_list A already stored under symb at min(A),
\* then after the call that inverse-result's result_nodes holds src.
C23_InverseResultShared ==
    [][(reply'.op = "add_inverse_trans") =>
         \A A \in reply'.arg.dst :
            (SharedResults(afa, A, reply'.arg.symb) # {}) =>
               \E result \in SharedResults(afa', A, reply'.arg.symb) :
                  reply'.arg.src \in result.result_nodes]_vars


\* C24: after any sequence of add_inverse_trans calls with non-empty
\* destination nodes, an inverse-result with sharing_list A is stored under
\* the state min(A), a state's inverse list has at most one bucket for a
\* symbol, and no two inverse-results of one bucket have the same
\* sharing_list: an inverse-result is stored in one place only.
C24_InverseStoreKeyed ==
    \A st \in 0 .. NumStates(afa) - 1 :
       LET row == afa.inverseTransRelation[st + 1]
       IN  /\ \A i, j \in DOMAIN row : row[i].symb = row[j].symb => i = j
           /\ \A i \in DOMAIN row :
                 LET results == row[i].inverseResults
                 IN  /\ \A k \in DOMAIN results : Min(results[k].sharing_list) = st
                     /\ \A k, l \in DOMAIN results :
                           results[k].sharing_list = results[l].sharing_list => k = l

\* The list of state 0 has a bucket with two inverse-results, for the nodes
\* {0} and {0, 1}, after a call that found one of them stored.
C24_Witness ==
    /\ reply.op = "add_inverse_trans"
    /\ ncalls = MaxAfaTrans
    /\ \E i \in DOMAIN afa.inverseTransRelation[1] :
          /\ Len(afa.inverseTransRelation[1][i].inverseResults) = 2
          /\ { afa.inverseTransRelation[1][i].inverseResults[k].sharing_list : k \in 1 .. 2 }
                = { { 0 }, { 0, 1 } }


\* The unions of one node of the stored destination of (t, symb) for each
\* state t of N, over every such choice.
ChosenUnions(a, N, symb) ==
    { UNION { f[t] : t \in N } :
        f \in { g \in [ N -> SUBSET AfaStateSet(a) ] :
                  \A t \in N : g[t] \in perform_trans(a, t, symb) } }

\* The subset-minimal nodes of a set of nodes.
MinimalNodes(NS) == { A \in NS : \A B \in NS : B \subseteq A => B = A }

\* C25: post(N, symb) is the upward-closed set whose antichain is the set of
\* the subset-minimal unions of one stored destination node per state of N;
\* it is the empty closed set when a state of N has no transition on symb,
\* and its antichain is {empty node} when N is empty.
C25_PostNodeSymbol ==
    \A symb \in AfaSymbols : \A N \in SUBSET PostStates :
       LET post_N == post_node_symb(afa, N, symb)
       IN  /\ post_N.type = "upward_closed_set"
           /\ post_N.antichain = MinimalNodes(ChosenUnions(afa, N, symb))
           /\ (\E t \in N : perform_trans(afa, t, symb) = {}) => post_N.antichain = {}
           /\ N = {} => post_N.antichain = { {} }

\* Both states have two destination nodes on one symbol, and a union of two
\* chosen nodes is not minimal: it is left out of post({0, 1}, symb).
C25_Witness ==
    \E symb \in AfaSymbols :
        /\ Cardinality(perform_trans(afa, 0, symb)) = 2
        /\ Cardinality(perform_trans(afa, 1, symb)) = 2
        /\ post_node_symb(afa, { 0, 1 }, symb).antichain # ChosenUnions(afa, { 0, 1 }, symb)
        /\ post_node_symb(afa, { 0, 1 }, symb).antichain # {}


\* C26: for a non-empty node N, post(N), which takes its symbols from the
\* move list of min(N), equals the union of post(N, symb) over all symbols
\* used anywhere in the automaton.
C26_PostNodeAllSymbols ==
    \A N \in (SUBSET PostStates) \ { {} } :
       post_node(afa, N).antichain
          = ClosedSet("upward_closed_set",
                      UNION { post_node_symb(afa, N, symb).antichain :
                                symb \in UsedSymbols(afa) }).antichain

\* State 1 has a transition on a symbol that state 0, which has a transition
\* too, does not fire: post({0, 1}) does not look at that symbol.
C26_Witness ==
    /\ afa.transRelation[1] # << >>
    /\ \E symb \in UsedSymbols(afa) :
          /\ perform_trans(afa, 1, symb) # {}
          /\ post_node_symb(afa, { 1 }, symb).antichain # {}
          /\ \A i \in DOMAIN afa.transRelation[1] : afa.transRelation[1][i].symb # symb


\* C27: for a non-empty node N and a symbol symb, pre(N) includes
\* pre(N, symb): every state of a node of pre(N, symb) is in a node of
\* pre(N), also when it comes from an inverse-result stored under a state
\* of N other than min(N).
C27_PreNodeIncludesSymbol ==
    \A N \in (SUBSET RunStates) \ { {} } : \A symb \in AfaSymbols :
       \A A \in pre_node_symb(afa, N, symb).antichain : \A x \in A :
          \E B \in pre_node(afa, N).antichain : x \in B

\* The inverse-results that qualify for pre(N, symb): stored under symb at a
\* state of N, with a sharing_list within N.
QualifiedResults(a, N, symb) ==
    UNION { UNION { { a.inverseTransRelation[t + 1][i].inverseResults[k] :
                        k \in { l \in DOMAIN a.inverseTransRelation[t + 1][i].inverseResults :
                                  a.inverseTransRelation[t + 1][i].inverseResults[l].sharing_list
                                     \subseteq N } } :
                    i \in { j \in DOMAIN a.inverseTransRelation[t + 1] :
                              a.inverseTransRelation[t + 1][j].symb = symb } } :
            t \in N }

\* C28: pre(N, symb) is the downward-closed set generated by the one node of
\* the states in the result_nodes of the inverse-results stored under symb at
\* a state of N whose sharing_list is a subset of N; the other inverse-results
\* add nothing, and when none qualifies the node is the empty node.
C28_PreNodeSymbol ==
    \A N \in SUBSET RunStates : \A symb \in AfaSymbols :
       LET pre_N == pre_node_symb(afa, N, symb)
           R == UNION { result.result_nodes : result \in QualifiedResults(afa, N, symb) }
       IN  /\ pre_N.type = "downward_closed_set"
           /\ pre_N.antichain = { R }
           /\ QualifiedResults(afa, N, symb) = {} => pre_N.antichain = { {} }

\* An inverse-result with sharing_list {0, 1} is stored under a symbol at
\* state 0: it adds its result_nodes to pre({0, 1}, symb) and nothing to
\* pre({0}, symb), for which no inverse-result qualifies.
C28_Witness ==
    \E symb \in AfaSymbols :
        /\ \E result \in QualifiedResults(afa, { 0, 1 }, symb) :
              result.sharing_list = { 0, 1 }
        /\ QualifiedResults(afa, { 0 }, symb) = {}
        /\ pre_node_symb(afa, { 0, 1 }, symb).antichain # { {} }
        /\ pre_node_symb(afa, { 0 }, symb).antichain = { {} }


\* Every transition stored so far has a non-empty destination.
StoredDstsNonEmpty ==
    \A i \in DOMAIN afa.transRelation : \A k \in DOMAIN afa.transRelation[i] :
       afa.transRelation[i][k].dst # {}

\* C30: after any sequence of add_trans calls, for every transition t with a
\* non-empty destination, has_trans(t) is true right after add_trans(t); here
\* for the sequences of calls with non-empty destinations.
C30_HasTransAfterAdd ==
    StoredDstsNonEmpty =>
       \A src \in PostStates, symb \in AfaSymbols, dst \in PostDsts \ { {} } :
          LET t == [ src |-> src, symb |-> symb, dst |-> dst ]
          IN  has_trans(add_trans(afa, t), t)

\* The pairs (src, symb) that have an entry in the forward relation.
StoredPairs(a) ==
    UNION { { << i - 1, a.transRelation[i][k].symb >> : k \in DOMAIN a.transRelation[i] } :
              i \in DOMAIN a.transRelation }

\* C31: after any sequence of add_trans calls, calls with the empty Nodes as
\* dst included, the transition list of a state has at most one entry for a
\* symbol, and trans_size() is the number of the pairs (src, symb) that
\* add_trans was called for.
C31_OneEntryPerSymbol ==
    /\ \A i \in DOMAIN afa.transRelation : \A j, k \in DOMAIN afa.transRelation[i] :
          afa.transRelation[i][j].symb = afa.transRelation[i][k].symb => j = k
    /\ trans_size(afa) = Cardinality(StoredPairs(afa))


\* C32: after any sequence of add_trans calls, the Nodes that perform_trans
\* returns for a pair (src, symb) are a reduced antichain: no stored node is
\* a proper superset of another, also when the first add_trans for the pair
\* had comparable nodes in its dst.
C32_StoredNodesReduced ==
    \A src \in PostStates, symb \in AfaSymbols :
       \A A, B \in perform_trans(afa, src, symb) : A \subseteq B => A = B


\* The number a name gets when names are numbered from 0 in the order in
\* which they are first seen in the list strs.
FirstSeenId(strs, n) ==
    LET first == Min({ i \in DOMAIN strs : strs[i] = n })
    IN  Cardinality({ strs[j] : j \in 1 .. first - 1 })

\* No two names of a map have the same state.
DistinctIds(names) == \A p1, p2 \in names : p1[2] = p2[2] => p1 = p2

\* C33: construct gives distinct names distinct state ids, numbered in the
\* order in which the names are first seen in the Initial list, the Final
\* list and the body; with a map of its own the initial and final states are
\* the first-seen numbers of their names, and a caller's map whose names
\* have distinct ids still has distinct ids after the call.
C33_DistinctIds ==
    [][(reply = NoReply /\ reply'.op \in { "construct", "construct_symbol_map" }
          /\ reply'.arg.type = TYPE_AFA)
         => LET seen == reply'.arg.Initial \o reply'.arg.Final
            IN  /\ ~state_map.given =>
                      /\ afa'.initialstates = afa.initialstates
                            \cup { FirstSeenId(seen, n) : n \in SeqRange(reply'.arg.Initial) }
                      /\ afa'.finalstates = afa.finalstates
                            \cup { FirstSeenId(seen, n) : n \in SeqRange(reply'.arg.Final) }
                /\ (state_map.given /\ DistinctIds(state_map.names))
                      => DistinctIds(state_map'.names)]_vars


=============================================================================
